---- MODULE Spec2Model ----
(***************************************************************************)
(* A model of the gameperson Game Boy emulator: the memory bus             *)
(* (src/src/memory.rs), the PPU (src/src/gpu.rs), the CPU interpreter      *)
(* (src/src/cpu.rs) and the driver loop (src/src/main.rs).                 *)
(*                                                                         *)
(* Bytes and words are naturals; every u8/u16 operation is written with    *)
(* its width.  Memories that the code allocates zero-filled are sparse     *)
(* functions: an address missing from the domain holds 0.  A panic of the  *)
(* process is the value of the variable fault; once it is set nothing      *)
(* more happens.  Arithmetic that Rust checks only in builds with          *)
(* overflow checks panics when build = "debug" and wraps when              *)
(* build = "release".                                                      *)
(***************************************************************************)
EXTENDS Integers, Sequences, FiniteSets, TLC

VARIABLES
    mem,          \* memory::Memory, with the Gpu it owns (mem.gpu)
    cpu,          \* cpu::Cpu: registers, sp, pc, interrupts_enabled
    build,        \* "debug" (overflow checks on) or "release" (wrapping)
    fault,        \* "none", or the panic that ended the process
    last,         \* the operation performed last, its arguments and result
    loop,         \* main's loop: position (at), cycles, the Option<Interrupt>
    files,        \* main's boot_rom and rom: the images read at startup
    ff50_written, \* history: some bus write to 0xFF50 has happened
    dots,         \* history: cycles handed to Gpu::display with the LCD on
    steps,        \* history: the number of operations performed so far
    pending,      \* history: a VBlank was returned by Gpu::display and
                  \* vblank_int has not been called since
    held          \* history: the JoypadButtons pressed and not released yet

vars == <<mem, cpu, build, fault, last, loop, files, ff50_written, dots, steps,
          pending, held>>

----------------------------------------------------------------------------
(* Bit arithmetic on naturals *)

Pow2(n) == 2 ^ n

Bit(x, n) == (x \div Pow2(n)) % 2

RECURSIVE BitAnd(_, _)
BitAnd(a, b) ==
    IF a = 0 \/ b = 0 THEN 0
    ELSE (a % 2) * (b % 2) + 2 * BitAnd(a \div 2, b \div 2)

RECURSIVE BitOr(_, _)
BitOr(a, b) ==
    IF a = 0 THEN b
    ELSE IF b = 0 THEN a
    ELSE (IF a % 2 = 1 \/ b % 2 = 1 THEN 1 ELSE 0) + 2 * BitOr(a \div 2, b \div 2)

RECURSIVE BitXor(_, _)
BitXor(a, b) ==
    IF a = 0 THEN b
    ELSE IF b = 0 THEN a
    ELSE ((a + b) % 2) + 2 * BitXor(a \div 2, b \div 2)

Not8(a) == 255 - a

U8(x) == x % 256

U16(x) == x % 65536

\* u8::reverse_bits
ReverseBits(b) ==
    Bit(b, 0) * 128 + Bit(b, 1) * 64 + Bit(b, 2) * 32 + Bit(b, 3) * 16
    + Bit(b, 4) * 8 + Bit(b, 5) * 4 + Bit(b, 6) * 2 + Bit(b, 7)

\* `x as i8`
AsI8(x) == IF x >= 128 THEN x - 256 ELSE x

----------------------------------------------------------------------------
(* Zero-filled memories as sparse functions *)

Zeroed == [x \in {} |-> 0]

SpGet(f, k) == IF k \in DOMAIN f THEN f[k] ELSE 0

SpSet(f, k, v) ==
    IF v = 0 THEN [x \in DOMAIN f \ {k} |-> f[x]]
    ELSE [x \in DOMAIN f \cup {k} |-> IF x = k THEN v ELSE f[x]]

\* The value a panicking read stands for
PANIC == -1

----------------------------------------------------------------------------
(* gpu.rs *)

BYTES_PER_PIXEL == 4
BUFFER_HEIGHT == 256
BUFFER_WIDTH == 256
BUFFER_SIZE == BUFFER_HEIGHT * BUFFER_WIDTH * BYTES_PER_PIXEL

\* Gpu::new.  Of the pixel buffer the state keeps row 0, columns 0..7 (row0,
\* one RGBA pixel per column, the buffer's bytes 0..31); of the writes
\* show_sprite makes anywhere else it keeps whether they index the buffer out
\* of range.
GpuNew ==
    [vram |-> Zeroed, oam |-> Zeroed, ly |-> 0, scy |-> 0, scx |-> 0,
     cycles |-> 0, lcdc |-> 0, lyc |-> 0, bgp |-> 0, obp0 |-> 0, obp1 |-> 0,
     stat |-> 0, row0 |-> [c \in 0..7 |-> <<0, 0, 0, 0>>]]

\* Gpu::read
GpuRead(g, address) ==
    IF address >= 32768 /\ address <= 40959 THEN SpGet(g.vram, address - 32768)
    ELSE IF address >= 65024 /\ address <= 65183 THEN SpGet(g.oam, address - 65024)
    ELSE IF address = 65344 THEN g.lcdc
    ELSE IF address = 65345 THEN g.stat
    ELSE IF address = 65346 THEN g.scy
    ELSE IF address = 65347 THEN g.scx
    ELSE IF address = 65348 THEN g.ly
    ELSE IF address = 65349 THEN g.lyc
    ELSE IF address = 65351 THEN g.bgp
    ELSE IF address = 65352 THEN g.obp0
    ELSE IF address = 65353 THEN g.obp1
    ELSE 0

\* Gpu::write
GpuWrite(g, address, value) ==
    IF address >= 32768 /\ address <= 40959
        THEN [g EXCEPT !.vram = SpSet(@, address - 32768, value)]
    ELSE IF address >= 65024 /\ address <= 65183
        THEN [g EXCEPT !.oam = SpSet(@, address - 65024, value)]
    ELSE IF address = 65344 THEN [g EXCEPT !.lcdc = value]
    ELSE IF address = 65345 THEN [g EXCEPT !.stat = value]
    ELSE IF address = 65346 THEN [g EXCEPT !.scy = value]
    ELSE IF address = 65347 THEN [g EXCEPT !.scx = value]
    ELSE IF address = 65348 THEN [g EXCEPT !.ly = value]
    ELSE IF address = 65349 THEN [g EXCEPT !.lyc = value]
    ELSE IF address = 65351 THEN [g EXCEPT !.bgp = value]
    ELSE IF address = 65352 THEN [g EXCEPT !.obp0 = value]
    ELSE IF address = 65353 THEN [g EXCEPT !.obp1 = value]
    ELSE g

\* Gpu::get_sprite followed by the X flip and Y flip of Gpu::display:
\* byte i (0..15) of the sprite handed to show_sprite.
SpriteByte(g, tile_index, flags, i) ==
    LET j   == IF Bit(flags, 6) = 1 THEN 2 * (7 - (i \div 2)) + (i % 2) ELSE i
        raw == SpGet(g.vram, tile_index * 16 + j)
    IN  IF Bit(flags, 5) = 1 THEN ReverseBits(raw) ELSE raw

\* The colour index show_sprite computes for (row, col)
ColorIndex(b0, b1, col) == Bit(b0, 7 - col) + 2 * Bit(b1, 7 - col)

\* The first buffer index show_sprite writes for pixel (row, col) of a sprite
\* at (x, y)
SpriteIndex(g, x, y, row, col) ==
    ((x + col + g.scx) + (y + row + g.scy) * BUFFER_WIDTH) * BYTES_PER_PIXEL

\* The sprite of OAM entry s passes the visibility test of Gpu::display
SpriteVisible(g, s) ==
    LET x == U8(SpGet(g.oam, 4 * s + 1) + 256 - 8)
        y == U8(SpGet(g.oam, 4 * s) + 256 - 16)
    IN  ~(x = 0 \/ y = 0 \/ x >= 168 \/ y >= 160)

\* show_sprite, called for OAM entry s, indexes the buffer out of range
ShowSpriteFaults(g, s) ==
    LET x     == U8(SpGet(g.oam, 4 * s + 1) + 256 - 8)
        y     == U8(SpGet(g.oam, 4 * s) + 256 - 16)
        tile  == SpGet(g.oam, 4 * s + 2)
        flags == SpGet(g.oam, 4 * s + 3)
    IN  \E row \in 0..7, col \in 0..7 :
            /\ ColorIndex(SpriteByte(g, tile, flags, 2 * row),
                          SpriteByte(g, tile, flags, 2 * row + 1), col) # 0
            /\ SpriteIndex(g, x, y, row, col) + 3 >= BUFFER_SIZE

\* NextLy as it would be if the wrap came one line late
NextLyLate(ly) == IF ly = 154 THEN 0 ELSE ly + 1

\* The line after ly: `if self.ly == 153 { 0 } else { self.ly + 1 }`
NextLy(ly) == IF ly = 153 THEN 0 ELSE ly + 1

\* The four shades, as the RGBA bytes show_tile and palette_color write
Shade(n) ==
    <<<<255, 224, 248, 208>>, <<255, 136, 192, 112>>,
      <<255, 52, 104, 86>>, <<255, 16, 24, 32>>>>[n + 1]

\* Gpu::palette_color: None (here <<>>) for colour index 0
PaletteColor(palette, color_index) ==
    IF color_index = 0 THEN <<>>
    ELSE Shade((palette \div Pow2(2 * color_index)) % 4)

\* Gpu::get_tile: byte i of the background tile tile_num
TileByte(g, tile_num, i) ==
    LET tile_start == IF Bit(g.lcdc, 4) = 0
                          THEN U16(36864 + AsI8(tile_num) * 16 + 65536)
                          ELSE 32768 + tile_num * 16
    IN  SpGet(g.vram, tile_start - 32768 + i)

\* The background loop of Gpu::display (run when LY = 0), for the pixels kept:
\* row 0, columns 0..7 belong to the first tile of the map, which show_tile
\* draws at (0, 0) with its own fixed shades.
ShowTiles(g) ==
    LET tile_num == GpuRead(g, IF Bit(g.lcdc, 3) = 0 THEN 38912 ELSE 39936)
    IN  [g EXCEPT !.row0 =
            [c \in 0..7 |-> Shade(ColorIndex(TileByte(g, tile_num, 0),
                                              TileByte(g, tile_num, 1), c))]]

\* The pixels (row, col) of the sprite of OAM entry s that show_sprite writes
\* at buffer index `index`
SpriteHits(g, s, index) ==
    LET x     == U8(SpGet(g.oam, 4 * s + 1) + 256 - 8)
        y     == U8(SpGet(g.oam, 4 * s) + 256 - 16)
        tile  == SpGet(g.oam, 4 * s + 2)
        flags == SpGet(g.oam, 4 * s + 3)
    IN  {rc \in (0..7) \X (0..7) :
            /\ ColorIndex(SpriteByte(g, tile, flags, 2 * rc[1]),
                          SpriteByte(g, tile, flags, 2 * rc[1] + 1), rc[2]) # 0
            /\ SpriteIndex(g, x, y, rc[1], rc[2]) = index}

\* The colour show_sprite writes for pixel rc of the sprite of OAM entry s
SpriteColor(g, s, rc) ==
    LET tile  == SpGet(g.oam, 4 * s + 2)
        flags == SpGet(g.oam, 4 * s + 3)
    IN  PaletteColor(IF Bit(flags, 4) = 0 THEN g.obp0 ELSE g.obp1,
                     ColorIndex(SpriteByte(g, tile, flags, 2 * rc[1]),
                                SpriteByte(g, tile, flags, 2 * rc[1] + 1), rc[2]))

\* The sprite loop of Gpu::display, for the pixels kept: each pixel ends with
\* the colour of the last OAM entry (they are drawn in order) that passes
\* the visibility test and writes it.
ShowSprites(g) ==
    [g EXCEPT !.row0 =
        [c \in 0..7 |->
            LET drawn == {s \in 0..39 : SpriteVisible(g, s)
                                         /\ SpriteHits(g, s, c * BYTES_PER_PIXEL) # {}}
            IN  IF drawn = {} THEN g.row0[c]
                ELSE LET s == CHOOSE t \in drawn : \A u \in drawn : u <= t
                     IN  SpriteColor(g, s,
                             CHOOSE rc \in SpriteHits(g, s, c * BYTES_PER_PIXEL) : TRUE)]]

\* Gpu::display: the Gpu afterwards, the Option<Interrupt> returned, and
\* whether the call panicked (in show_sprite).
Display(g, cycles) ==
    IF Bit(g.lcdc, 7) = 0 THEN [gpu |-> g, int |-> "None", ok |-> TRUE]
    ELSE
        LET c   == g.cycles + cycles
            g1  == IF c >= 116
                       THEN [g EXCEPT !.ly = NextLy(g.ly), !.cycles = 0]
                       ELSE [g EXCEPT !.cycles = c]
            g2  == IF g1.ly = 0 THEN ShowTiles(g1) ELSE g1
            bad == /\ Bit(g2.lcdc, 1) = 1
                   /\ \E s \in 0..39 : SpriteVisible(g2, s) /\ ShowSpriteFaults(g2, s)
        IN  IF bad THEN [gpu |-> g2, int |-> "None", ok |-> FALSE]
            ELSE [gpu |-> IF Bit(g2.lcdc, 1) = 1 THEN ShowSprites(g2) ELSE g2,
                  int |-> IF g2.ly = 144 THEN "VBlank" ELSE "None",
                  ok  |-> TRUE]

----------------------------------------------------------------------------
(* memory.rs *)

\* Rom::new: a ROM region of len bytes, kept as its nonzero bytes
Rom(len, bytes) == [len |-> len, bytes |-> bytes]

\* Rom::read
RomRead(rom, address) ==
    IF address < rom.len THEN SpGet(rom.bytes, address) ELSE PANIC

\* Memory::new
MemoryNew ==
    [gpu |-> GpuNew, ram |-> Zeroed, zero_page |-> Zeroed, io0 |-> 0, ie |-> 0,
     joy_action |-> 0, joy_direction |-> 0, mappings |-> << >>]

\* Memory::map: the range ends at address + (len as u16)
Map(m, address, rom) ==
    [m EXCEPT !.mappings =
        Append(@, [start |-> address, end |-> address + U16(rom.len), region |-> rom])]

\* Range<u16>::contains
Contains(mp, addr) == mp.start <= addr /\ addr < mp.end

\* Memory::mapping / Memory::mapping_mut: the index of the first mapping that
\* holds the address (as u16), 0 when there is none
MappingAt(m, address) ==
    LET addr == U16(address)
        hits == {i \in 1..Len(m.mappings) : Contains(m.mappings[i], addr)}
    IN  IF hits = {} THEN 0 ELSE CHOOSE i \in hits : \A j \in hits : i <= j

\* Unmap as it would be if the write to 0xff50 left the mappings alone
UnmapNothing(m, address) == m

\* Memory::unmap
Unmap(m, address) ==
    LET pos == MappingAt(m, address)
    IN  IF pos = 0 THEN m
        ELSE [m EXCEPT !.mappings =
                 [i \in 1..(Len(@) - 1) |-> IF i < pos THEN @[i] ELSE @[i + 1]]]

\* The nintendo_logo array of Memory::load
NintendoLogo ==
    <<206, 237, 102, 102, 204, 13, 0, 11, 3, 115, 0, 131,
      0, 12, 0, 13, 0, 8, 17, 31, 136, 137, 0, 14,
      220, 204, 110, 230, 221, 221, 217, 153, 187, 187, 103, 99,
      110, 14, 236, 204, 221, 220, 153, 159, 187, 185, 51, 62>>

\* JoypadRead with the halves exchanged: bit 5 selects the directions
JoypadReadHalvesSwapped(m) ==
    LET high_nibble == BitAnd(m.io0, 240)
    IN  IF BitAnd(m.io0, 32) = 0
            THEN BitOr(high_nibble, BitAnd(Not8(BitAnd(m.joy_direction, 15)), 15))
        ELSE IF BitAnd(m.io0, 16) = 0
            THEN BitOr(high_nibble, BitAnd(Not8(BitAnd(m.joy_action, 15)), 15))
        ELSE 255

\* The 0xff00 arm of Memory::load
JoypadRead(m) ==
    LET high_nibble == BitAnd(m.io0, 240)
    IN  IF BitAnd(m.io0, 32) = 0
            THEN BitOr(high_nibble, BitAnd(Not8(BitAnd(m.joy_action, 15)), 15))
        ELSE IF BitAnd(m.io0, 16) = 0
            THEN BitOr(high_nibble, BitAnd(Not8(BitAnd(m.joy_direction, 15)), 15))
        ELSE 255

\* Memory::load.  The cartridge vector of Memory is never filled, so the
\* 0x0000..=0x00ff arm indexes an empty vector.
Load(m, address) ==
    LET pos == MappingAt(m, address)
    IN  IF pos # 0
            THEN RomRead(m.mappings[pos].region, U16(address) - m.mappings[pos].start)
        ELSE IF address <= 255 THEN PANIC
        ELSE IF address <= 259 THEN 0
        ELSE IF address <= 32767
            THEN IF address <= 307 THEN NintendoLogo[address - 260 + 1] ELSE 0
        ELSE IF address <= 40959 THEN GpuRead(m.gpu, address)
        ELSE IF address = 65280 THEN JoypadRead(m)
        ELSE IF address \in {65344, 65345, 65346, 65348, 65349, 65351, 65352}
            THEN GpuRead(m.gpu, address)
        ELSE IF address >= 49152 /\ address <= 57343 THEN SpGet(m.ram, address - 49152)
        ELSE IF address >= 57344 /\ address <= 65023
            THEN SpGet(m.ram, address - 8192 - 49152)
        ELSE IF address >= 65024 /\ address <= 65183 THEN GpuRead(m.gpu, address)
        ELSE IF address >= 65408 /\ address <= 65534
            THEN SpGet(m.zero_page, address - 65408)
        ELSE IF address = 65535 THEN m.ie
        ELSE 0

\* Dma as it would be with the loop one byte short (address..address + 0x9f
\* exclusive)
DmaShort(m, addr) ==
    LET address == addr * 256
        src     == [i \in 0..158 |-> Load(m, address + i)]
        bad     == {i \in 0..158 : src[i] = PANIC}
        n       == IF bad = {} THEN 159 ELSE CHOOSE i \in bad : \A j \in bad : i <= j
        keep    == {i \in DOMAIN m.gpu.oam : i >= n}
        copied  == {i \in 0..(n - 1) : src[i] # 0}
        oam     == [i \in copied \cup keep |-> IF i < n THEN src[i] ELSE m.gpu.oam[i]]
    IN  [mem |-> [m EXCEPT !.gpu.oam = oam], ok |-> bad = {}]

\* Memory::dma.  The loop loads source byte a and hands it to Gpu::write at
\* 0xfe00 + (a - address), for a = address .. address + 0x9f.  Its writes go
\* to OAM only, and when the source is OAM itself (addr = 0xfe) byte i is
\* copied onto itself, so every load sees the value the byte had before the
\* loop: the loop is the copy below.  A panicking load ends it at byte n,
\* with the bytes before n copied.
Dma(m, addr) ==
    LET address == addr * 256
        src     == [i \in 0..159 |-> Load(m, address + i)]
        bad     == {i \in 0..159 : src[i] = PANIC}
        n       == IF bad = {} THEN 160 ELSE CHOOSE i \in bad : \A j \in bad : i <= j
        keep    == {i \in DOMAIN m.gpu.oam : i >= n}
        copied  == {i \in 0..(n - 1) : src[i] # 0}
        oam     == [i \in copied \cup keep |-> IF i < n THEN src[i] ELSE m.gpu.oam[i]]
    IN  [mem |-> [m EXCEPT !.gpu.oam = oam], ok |-> bad = {}]

\* Memory::write: the Memory afterwards, and whether the call returned
\* (ok) or panicked.  A mapped region is written first (Rom::write does
\* nothing), then the address is matched whatever the mapping.
Write(m, address, value) ==
    IF address >= 32768 /\ address <= 40959
        THEN [mem |-> [m EXCEPT !.gpu = GpuWrite(@, address, value)], ok |-> TRUE]
    ELSE IF address >= 49152 /\ address <= 57343
        THEN [mem |-> [m EXCEPT !.ram = SpSet(@, address - 49152, value)], ok |-> TRUE]
    ELSE IF address >= 65024 /\ address <= 65183
        THEN [mem |-> [m EXCEPT !.gpu = GpuWrite(@, address, value)], ok |-> TRUE]
    ELSE IF address = 65280 THEN [mem |-> [m EXCEPT !.io0 = value], ok |-> TRUE]
    ELSE IF address \in {65344, 65345, 65346}
        THEN [mem |-> [m EXCEPT !.gpu = GpuWrite(@, address, value)], ok |-> TRUE]
    ELSE IF address = 65348 THEN [mem |-> m, ok |-> FALSE]
    ELSE IF address = 65349
        THEN [mem |-> [m EXCEPT !.gpu = GpuWrite(@, address, value)], ok |-> TRUE]
    ELSE IF address = 65350 THEN Dma(m, value)
    ELSE IF address \in {65351, 65352}
        THEN [mem |-> [m EXCEPT !.gpu = GpuWrite(@, address, value)], ok |-> TRUE]
    ELSE IF address = 65360 THEN [mem |-> Unmap(m, 0), ok |-> TRUE]
    ELSE IF address >= 65408 /\ address <= 65534
        THEN [mem |-> [m EXCEPT !.zero_page = SpSet(@, address - 65408, value)],
              ok |-> TRUE]
    ELSE IF address = 65535 THEN [mem |-> [m EXCEPT !.ie = value], ok |-> TRUE]
    ELSE [mem |-> m, ok |-> TRUE]

\* Memory::set_joy_state
SetJoyState(m, action, direction) ==
    [m EXCEPT !.joy_action = BitOr(@, action),
              !.joy_direction = BitOr(@, direction)]

\* Memory::unset_joy_state
UnsetJoyState(m, action, direction) ==
    [m EXCEPT !.joy_action = BitAnd(@, Not8(action)),
              !.joy_direction = BitAnd(@, Not8(direction))]

----------------------------------------------------------------------------
(* cpu.rs.  An instruction works on a machine M: the Cpu (cpu), the Memory  *)
(* it borrows (mem), whether the process is still running (ok), whether    *)
(* 0xFF50 was written (ff50), the value loaded last (t) and the cycles to   *)
(* return (cycles).  Every step of an instruction leaves a machine that has *)
(* panicked as it is.                                                       *)

ZERO_FLAG == 128
SUBTRACT_FLAG == 64
HALF_CARRY_FLAG == 32
CARRY_FLAG == 16

\* `let x = v; e`, written Bind([x \in {v} |-> e]): v is computed once
Bind(f) == f[CHOOSE x \in DOMAIN f : TRUE]

\* u16 `x + k` and `x - k`: a panic with overflow checks, wrapping without
CkAdd16(x, k) ==
    IF x + k > 65535 THEN (IF build = "debug" THEN PANIC ELSE x + k - 65536)
    ELSE x + k

CkSub16(x, k) ==
    IF x - k < 0 THEN (IF build = "debug" THEN PANIC ELSE x - k + 65536)
    ELSE x - k

\* The machine at the start of Cpu::decode: `let mut cycles = 1`
Machine(c, m) ==
    [cpu |-> c, mem |-> m, ok |-> TRUE, ff50 |-> FALSE, t |-> 0, cycles |-> 1]

Fail(M) == [M EXCEPT !.ok = FALSE]

\* memory.load(addr), the byte kept in t
LdT(M, addr) ==
    IF ~M.ok THEN M
    ELSE Bind([v \in {Load(M.mem, addr)} |->
                  IF v = PANIC THEN Fail(M) ELSE [M EXCEPT !.t = v]])

\* memory.write(addr, v)
St(M, addr, v) ==
    IF ~M.ok THEN M
    ELSE Bind([r \in {Write(M.mem, addr, v)} |->
                  [M EXCEPT !.mem = r.mem, !.ok = r.ok, !.ff50 = @ \/ addr = 65360]])

\* An assignment of a number to a field of the Cpu
Set(M, field, v) ==
    IF ~M.ok THEN M
    ELSE IF v = PANIC THEN Fail(M)
    ELSE [M EXCEPT !.cpu[field] = v]

\* self.interrupts_enabled = b
SetIme(M, b) == IF ~M.ok THEN M ELSE [M EXCEPT !.cpu.interrupts_enabled = b]

\* self.pc += 1, self.sp += 1, self.sp -= 1
IncPc(M) == Set(M, "pc", CkAdd16(M.cpu.pc, 1))

IncSp(M) == Set(M, "sp", CkAdd16(M.cpu.sp, 1))

DecSp(M) == Set(M, "sp", CkSub16(M.cpu.sp, 1))

\* Registers::hl, bc, de
Hl(c) == c.h * 256 + c.l

Bc(c) == c.b * 256 + c.c

De(c) == c.d * 256 + c.e

\* Write16 as it would be if write_af kept all eight bits of the flags byte
Write16Unmasked(M, pair, value) ==
    IF ~M.ok THEN M
    ELSE IF value = PANIC THEN Fail(M)
    ELSE IF pair = "bc" THEN [M EXCEPT !.cpu.b = value \div 256, !.cpu.c = value % 256]
    ELSE IF pair = "de" THEN [M EXCEPT !.cpu.d = value \div 256, !.cpu.e = value % 256]
    ELSE IF pair = "hl" THEN [M EXCEPT !.cpu.h = value \div 256, !.cpu.l = value % 256]
    ELSE IF pair = "af"
        THEN [M EXCEPT !.cpu.a = value \div 256, !.cpu.flags = value % 256]
    ELSE [M EXCEPT !.cpu.sp = value]

\* Registers::write_bc, write_de, write_hl, write_af and the assignment to sp,
\* chosen by the pair's name
Write16(M, pair, value) ==
    IF ~M.ok THEN M
    ELSE IF value = PANIC THEN Fail(M)
    ELSE IF pair = "bc" THEN [M EXCEPT !.cpu.b = value \div 256, !.cpu.c = value % 256]
    ELSE IF pair = "de" THEN [M EXCEPT !.cpu.d = value \div 256, !.cpu.e = value % 256]
    ELSE IF pair = "hl" THEN [M EXCEPT !.cpu.h = value \div 256, !.cpu.l = value % 256]
    ELSE IF pair = "af"
        THEN [M EXCEPT !.cpu.a = value \div 256,
                       !.cpu.flags = BitAnd(value % 256, 240)]
    ELSE [M EXCEPT !.cpu.sp = value]

\* Registers::bc, de, hl and sp, chosen by the pair's name
Read16(c, pair) ==
    IF pair = "bc" THEN Bc(c)
    ELSE IF pair = "de" THEN De(c)
    ELSE IF pair = "hl" THEN Hl(c)
    ELSE c.sp

\* Registers::set_flag
SetFlag(M, flag, value) ==
    IF ~M.ok THEN M
    ELSE [M EXCEPT !.cpu.flags = IF value THEN BitOr(@, flag)
                                 ELSE BitAnd(@, Not8(flag))]

\* set_flag for Z, N, H and C
SetZNHC(M, z, n, h, c) ==
    SetFlag(SetFlag(SetFlag(SetFlag(M, ZERO_FLAG, z), SUBTRACT_FLAG, n),
                    HALF_CARRY_FLAG, h), CARRY_FLAG, c)

\* `self.regs.flags & flag != 0`
FlagSet(c, flag) == BitAnd(c.flags, flag) # 0

\* (self.regs.flags & CARRY_FLAG) >> 4
CarryBit(c) == IF FlagSet(c, CARRY_FLAG) THEN 1 ELSE 0

\* Cpu::index: the register of a 3-bit field, "(hl)" for the byte at HL
Index == <<"b", "c", "d", "e", "h", "l", "(hl)", "a">>

\* Location::load8 of Cpu::index(i), the byte kept in t
Load8(M, i) ==
    IF ~M.ok THEN M
    ELSE IF i = 6 THEN LdT(M, Hl(M.cpu))
    ELSE [M EXCEPT !.t = M.cpu[Index[i + 1]]]

\* Location::store8 of Cpu::index(i)
Store8(M, i, value) ==
    IF ~M.ok THEN M
    ELSE IF i = 6 THEN St(M, Hl(M.cpu), value)
    ELSE [M EXCEPT !.cpu[Index[i + 1]] = value]

\* `cycles = n; return cycles` inside the match of Cpu::decode
Done(M, n) == [M EXCEPT !.cycles = n]

\* `cycles = n` and the end of Cpu::decode, lines 1669-1671: self.pc += 1
Fall(M, n) == Done(IncPc(M), n)

\* An immediate byte: self.pc += 1; memory.load(self.pc), kept in t
Imm(M) == Bind([M1 \in {IncPc(M)} |-> LdT(M1, M1.cpu.pc)])

\* Two immediate bytes, low then high; t is the word high:low
Imm2(M) ==
    Bind([M1 \in {Imm(M)} |->
    Bind([M2 \in {Imm(M1)} |-> [M2 EXCEPT !.t = M2.t * 256 + M1.t]])])

\* The pair that bits 4-5 of an opcode select
Pair(opcode) == <<"bc", "de", "hl", "sp">>[((opcode \div 16) % 4) + 1]

\* 0x01 | 0x11 | 0x21 | 0x31: LD r16,n
LdR16N(M, opcode) ==
    Bind([M2 \in {Imm2(M)} |-> Fall(Write16(M2, Pair(opcode), M2.t), 12)])

\* DEC r8
DecR8(M, opcode) ==
    Bind([M1 \in {Load8(M, (opcode \div 8) % 8)} |->
    Bind([value \in {U8(M1.t + 255)} |->
        Fall(SetFlag(SetFlag(SetFlag(Store8(M1, (opcode \div 8) % 8, value),
                                     ZERO_FLAG, value = 0),
                             SUBTRACT_FLAG, TRUE),
                     HALF_CARRY_FLAG, value % 16 = 15),
             IF opcode = 53 THEN 12 ELSE 4)])])

\* IncR8 clearing the carry flag as well
IncR8ClearsCarry(M, opcode) ==
    Bind([M1 \in {Load8(M, (opcode \div 8) % 8)} |->
    Bind([value \in {U8(M1.t + 1)} |->
        Fall(SetZNHC(Store8(M1, (opcode \div 8) % 8, value),
                     value = 0, FALSE, value % 16 = 0, FALSE),
             IF opcode = 52 THEN 12 ELSE 4)])])

\* INC r8
IncR8(M, opcode) ==
    Bind([M1 \in {Load8(M, (opcode \div 8) % 8)} |->
    Bind([value \in {U8(M1.t + 1)} |->
        Fall(SetFlag(SetFlag(SetFlag(Store8(M1, (opcode \div 8) % 8, value),
                                     ZERO_FLAG, value = 0),
                             SUBTRACT_FLAG, FALSE),
                     HALF_CARRY_FLAG, value % 16 = 0),
             IF opcode = 52 THEN 12 ELSE 4)])])

\* 0x07: RLCA.  `self.regs.a <<= 1` drops bit 7.
Rlca(M) ==
    Fall(SetZNHC(Set(M, "a", U8(M.cpu.a * 2)), FALSE, FALSE, FALSE, M.cpu.a >= 128), 4)

\* 0x17: RLA
Rla(M) ==
    Fall(SetZNHC(Set(M, "a", BitOr(U8(M.cpu.a * 2), CarryBit(M.cpu))),
                 FALSE, FALSE, FALSE, M.cpu.a >= 128), 4)

\* 0x1f: RRA
Rra(M) ==
    Fall(SetZNHC(Set(M, "a", BitOr(M.cpu.a \div 2, CarryBit(M.cpu) * 128)),
                 FALSE, FALSE, FALSE, M.cpu.a % 2 = 1), 4)

\* 0x08: LD (a16),SP
LdA16Sp(M) ==
    Bind([M2 \in {Imm2(M)} |->
        Fall(St(St(M2, M2.t, M.cpu.sp % 256), M2.t + 1, M.cpu.sp \div 256), 20)])

\* 0x09 | 0x19 | 0x29 | 0x39: ADD HL,n
AddHl(M, opcode) ==
    Bind([hl \in {Hl(M.cpu)} |->
    Bind([operand \in {Read16(M.cpu, Pair(opcode))} |->
        Fall(SetFlag(SetFlag(Write16(SetFlag(M, HALF_CARRY_FLAG,
                                             (hl % 4096) + (operand % 4096) > 4095),
                                     "hl", U16(hl + operand)),
                             SUBTRACT_FLAG, FALSE),
                     CARRY_FLAG, hl + operand > 65535), 8)])])

\* 0x0a | 0x1a | 0x2a | 0x3a: LD A,(r16), with HL+ and HL-.  write_hl(hl + 1)
\* and write_hl(hl - 1) come before the load.
LdAR16(M, opcode) ==
    Bind([hl \in {Hl(M.cpu)} |->
    Bind([M1 \in {IF opcode = 42 THEN Write16(M, "hl", CkAdd16(hl, 1))
         ELSE IF opcode = 58 THEN Write16(M, "hl", CkSub16(hl, 1))
         ELSE M} |->
    Bind([M2 \in {LdT(M1, IF opcode = 10 THEN Bc(M.cpu)
                          ELSE IF opcode = 26 THEN De(M.cpu) ELSE hl)} |->
        Fall(Set(M2, "a", M2.t), 8)])])])

\* LD r8,n
LdR8N(M, opcode) ==
    Bind([M1 \in {Imm(M)} |->
        Fall(Store8(M1, (opcode \div 8) % 8, M1.t), IF opcode = 54 THEN 12 ELSE 8)])

\* 0x03 | 0x13 | 0x23 | 0x33: 16bit INC, wrapping
IncR16(M, opcode) ==
    Fall(Write16(M, Pair(opcode), U16(Read16(M.cpu, Pair(opcode)) + 1)), 8)

\* 0x0b | 0x1b | 0x2b | 0x3b: 16bit DEC, `- 1`
DecR16(M, opcode) ==
    Fall(Write16(M, Pair(opcode), CkSub16(Read16(M.cpu, Pair(opcode)), 1)), 8)

\* `immediate.abs()` on an i8: -128 overflows
AbsI8(e) == IF e = -128 THEN (IF build = "debug" THEN PANIC ELSE -128) ELSE -e

\* The target of a relative jump from pc by the byte n taken as i8:
\* saturating_add for n >= 0, saturating_sub of abs(n) as u16 below
JrTarget(pc, n) ==
    IF AsI8(n) >= 0 THEN (IF pc + AsI8(n) > 65535 THEN 65535 ELSE pc + AsI8(n))
    ELSE IF AbsI8(AsI8(n)) = PANIC THEN PANIC
    ELSE IF pc - U16(AbsI8(AsI8(n)) + 65536) < 0 THEN 0
    ELSE pc - U16(AbsI8(AsI8(n)) + 65536)

\* 0x18: JR n
Jr(M) ==
    Bind([M1 \in {Imm(M)} |->
    Bind([M2 \in {IncPc(M1)} |->
        Done(Set(M2, "pc", JrTarget(M2.cpu.pc, M1.t)), 12)])])

\* 0x28 and 0x20: JR Z,n and JR NZ,n.  pc moves past the operand only when
\* the jump is taken; otherwise the common end of decode moves it.
JrZ(M, opcode) ==
    Bind([M1 \in {Imm(M)} |->
        IF FlagSet(M.cpu, ZERO_FLAG) = (opcode = 40)
            THEN Bind([M2 \in {IncPc(M1)} |->
                     Done(Set(M2, "pc", JrTarget(M2.cpu.pc, M1.t)), 12)])
        ELSE Fall(M1, 8)])

\* 0x38 and 0x30: JR C,n and JR NC,n
JrC(M, opcode) ==
    Bind([M1 \in {Imm(M)} |->
    Bind([M2 \in {IncPc(M1)} |->
        IF FlagSet(M.cpu, CARRY_FLAG) = (opcode = 56)
            THEN Done(Set(M2, "pc", JrTarget(M2.cpu.pc, M1.t)), 12)
        ELSE Done(M2, 8)])])

\* 0x02, 0x12, 0x22, 0x32: LD (BC),A; LD (DE),A; LD (HL+),A; LD (HL-),A
LdR16A(M, opcode) ==
    Bind([hl \in {Hl(M.cpu)} |->
    Bind([M1 \in {St(M, IF opcode = 2 THEN Bc(M.cpu)
                        ELSE IF opcode = 18 THEN De(M.cpu) ELSE hl, M.cpu.a)} |->
        Fall(IF opcode = 34 THEN Write16(M1, "hl", CkAdd16(hl, 1))
             ELSE IF opcode = 50 THEN Write16(M1, "hl", CkSub16(hl, 1))
             ELSE M1, 8)])])

\* 0x40..=0x7f: LD r8,r8
LdR8R8(M, opcode) ==
    Bind([M1 \in {Load8(M, opcode % 8)} |->
        Fall(Store8(M1, (opcode \div 8) % 8, M1.t), 4)])

\* Stands for the machine after `unimplemented!()` or `panic!()`
Unimplemented(M) == Fail(M)

\* An Alu that subtracts for every op and sets C when there is no borrow
AluCarryNoBorrow(M, op, n) ==
    IF ~M.ok THEN M
    ELSE SetZNHC(Set(M, "a", U8(M.cpu.a - n)), U8(M.cpu.a - n) = 0, TRUE,
                 (M.cpu.a % 16) < (n % 16), M.cpu.a >= n)

\* An Alu that adds for every op and takes the half carry from the new A
AluHalfCarryLate(M, op, n) ==
    IF ~M.ok THEN M
    ELSE SetZNHC(Set(M, "a", U8(M.cpu.a + n)), U8(M.cpu.a + n) = 0, FALSE,
                 (U8(M.cpu.a + n) % 16) + (n % 16) > 15, M.cpu.a + n > 255)

\* ADD, ADC, SUB, SBC, AND, XOR, OR, CP of n into A (op 0..7), lines
\* 784-921.  ADC takes its half carry from the new A.
Alu(M, op, n) ==
    Bind([a \in {M.cpu.a} |->
    Bind([carry \in {CarryBit(M.cpu)} |->
        IF ~M.ok THEN M
        ELSE IF op = 0 THEN
            SetZNHC(Set(M, "a", U8(a + n)), U8(a + n) = 0, FALSE,
                    (a % 16) + (n % 16) > 15, a + n > 255)
        ELSE IF op = 1 THEN
            SetZNHC(Set(M, "a", U8(a + carry + n)), U8(a + carry + n) = 0, FALSE,
                    (U8(a + carry + n) % 16) + (n % 16) + carry > 15,
                    a + carry + n > 255)
        ELSE IF op = 2 THEN
            SetZNHC(Set(M, "a", U8(a - n)), U8(a - n) = 0, TRUE,
                    (a % 16) < (n % 16), a < n)
        ELSE IF op = 3 THEN Unimplemented(M)
        ELSE IF op = 4 THEN
            SetZNHC(Set(M, "a", BitAnd(a, n)), BitAnd(a, n) = 0, FALSE, TRUE, FALSE)
        ELSE IF op = 5 THEN
            SetFlag(Set(Set(M, "a", BitXor(a, n)), "flags", 0), ZERO_FLAG,
                    BitXor(a, n) = 0)
        ELSE IF op = 6 THEN
            SetFlag(Set(Set(M, "a", BitOr(a, n)), "flags", 0), ZERO_FLAG,
                    BitOr(a, n) = 0)
        ELSE SetZNHC(M, a = n, TRUE, (a % 16) < (n % 16), n > a)])])

\* 0x80..=0xbf and 0xc6, 0xd6, 0xe6, 0xf6, 0xce, 0xde, 0xee, 0xfe
AluOp(M, opcode) ==
    Bind([M1 \in {IF opcode > 191 THEN Imm(M) ELSE Load8(M, opcode % 8)} |->
        Fall(Alu(M1, (opcode \div 8) % 8, M1.t),
             IF opcode > 191 \/ opcode % 8 = 6 THEN 8 ELSE 4)])

\* Pop2 taking the first byte popped as the low byte
Pop2LowFirst(M) ==
    Bind([M1 \in {LdT(M, M.cpu.sp)} |->
    Bind([M2 \in {IncSp(M1)} |->
    Bind([M3 \in {LdT(M2, M2.cpu.sp)} |->
        [IncSp(M3) EXCEPT !.t = M3.t * 256 + M1.t]])])])

\* Two bytes off the stack, lines 1007-1010: high = load(sp); sp += 1;
\* low = load(sp); sp += 1; t is the word from_be_bytes([high, low])
Pop2(M) ==
    Bind([M1 \in {LdT(M, M.cpu.sp)} |->
    Bind([M2 \in {IncSp(M1)} |->
    Bind([M3 \in {LdT(M2, M2.cpu.sp)} |->
        [IncSp(M3) EXCEPT !.t = M1.t * 256 + M3.t]])])])

\* 0xc9: RET; 0xc0 and 0xc8: RET NZ and RET Z
Ret(M, opcode) ==
    IF opcode = 201 \/ (FlagSet(M.cpu, ZERO_FLAG) = (opcode = 200))
        THEN Bind([M2 \in {Pop2(M)} |->
                 Done(Set(M2, "pc", M2.t), IF opcode = 201 THEN 16 ELSE 20)])
    ELSE Fall(M, 8)

\* 0xc1 | 0xd1 | 0xe1 | 0xf1: POP r16
Pop(M, opcode) ==
    Bind([M2 \in {Pop2(M)} |->
        Fall(Write16(M2, <<"bc", "de", "hl", "af">>[((opcode \div 16) % 4) + 1], M2.t),
             12)])

\* sp -= 1; write(sp, first); sp -= 1; write(sp, second)
Push2(M, first, second) ==
    Bind([M1 \in {DecSp(M)} |->
    Bind([M2 \in {St(M1, M1.cpu.sp, first)} |->
    Bind([M3 \in {DecSp(M2)} |-> St(M3, M3.cpu.sp, second)])])])

\* 0xc5 | 0xd5 | 0xe5 | 0xf5: PUSH r16
Push(M, opcode) ==
    Fall(Push2(M, <<M.cpu.c, M.cpu.e, M.cpu.l, M.cpu.flags>>[((opcode \div 16) % 4) + 1],
               <<M.cpu.b, M.cpu.d, M.cpu.h, M.cpu.a>>[((opcode \div 16) % 4) + 1]), 16)

\* The condition of CALL and JP by bits 3-4 of the opcode: NZ, Z, NC, C
Condition(c, opcode) ==
    IF (opcode \div 8) % 4 = 0 THEN ~FlagSet(c, ZERO_FLAG)
    ELSE IF (opcode \div 8) % 4 = 1 THEN FlagSet(c, ZERO_FLAG)
    ELSE IF (opcode \div 8) % 4 = 2 THEN ~FlagSet(c, CARRY_FLAG)
    ELSE FlagSet(c, CARRY_FLAG)

\* 0xc4 | 0xcc | 0xcd | 0xd4 | 0xdc: CALL condition, nn.  The low byte of the
\* next instruction's address goes to sp-1, the high byte to sp-2.
Call(M, opcode) ==
    Bind([M2 \in {Imm2(M)} |->
        IF opcode = 205 \/ Condition(M.cpu, opcode)
            THEN Bind([next \in {CkAdd16(M2.cpu.pc, 1)} |->
                     Done(Set(Push2(IF next = PANIC THEN Fail(M2) ELSE M2,
                                    next % 256, next \div 256),
                              "pc", M2.t), 24)])
        ELSE Fall(M2, 12)])

\* The 0xcb page, group 0: RLC, RRC, RL, RR, SLA, SRA, SWAP, SRL of the byte
\* v at index i.  RLC only ever sets Z.  SWAP: `value&0xf << 4 | value&0xf0 >> 4`
\* parses as (value & (0xf << 4)) | (value & (0xf0 >> 4)).
CbRot(M, op, i, v, carry) ==
    IF ~M.ok THEN M
    ELSE IF op = 0 THEN
        Bind([r \in {U8(v * 2) + v \div 128} |->
            SetFlag(SetFlag(IF r = 0
                                THEN SetFlag(SetFlag(Store8(M, i, r), CARRY_FLAG, r % 2 = 1),
                                             ZERO_FLAG, TRUE)
                            ELSE SetFlag(Store8(M, i, r), CARRY_FLAG, r % 2 = 1),
                            SUBTRACT_FLAG, FALSE), HALF_CARRY_FLAG, FALSE)])
    ELSE IF op = 1 THEN Unimplemented(M)
    ELSE IF op = 2 THEN
        Bind([r \in {BitOr(U8(v * 2), carry)} |->
            SetZNHC(Store8(M, i, r), r = 0, FALSE, FALSE, v >= 128)])
    ELSE IF op = 3 THEN
        Bind([r \in {BitOr(carry * 128, v \div 2)} |->
            SetZNHC(Store8(M, i, r), r = 0, FALSE, FALSE, v % 2 = 1)])
    ELSE IF op = 4 THEN
        Bind([r \in {U8(v * 2)} |->
            SetZNHC(Store8(M, i, r), r = 0, FALSE, FALSE, v >= 128)])
    ELSE IF op = 5 THEN Unimplemented(M)
    ELSE IF op = 6 THEN
        Bind([r \in {BitOr(BitAnd(v, U8(15 * 16)), BitAnd(v, 240 \div 16))} |->
            SetZNHC(Store8(M, i, r), r = 0, FALSE, FALSE, FALSE)])
    ELSE
        Bind([r \in {v \div 2} |->
            SetZNHC(Store8(M, i, r), r = 0, FALSE, FALSE, v % 2 = 1)])

\* 0xcb: the second opcode byte cb selects rotate/shift, BIT, RES or SET
Cb(M) ==
    Bind([M1 \in {Imm(M)} |->
    Bind([cb \in {M1.t} |->
        IF cb \div 64 = 0 /\ (cb \div 8) % 8 \in {1, 5} THEN Fall(Unimplemented(M1), 4)
        ELSE Bind([M2 \in {Load8(M1, cb % 8)} |->
            Fall(IF ~M2.ok THEN M2
                 ELSE IF cb \div 64 = 0
                     THEN CbRot(M2, (cb \div 8) % 8, cb % 8, M2.t, CarryBit(M.cpu))
                 ELSE IF cb \div 64 = 1 THEN
                     SetFlag(SetFlag(SetFlag(M2, ZERO_FLAG, Bit(M2.t, (cb \div 8) % 8) = 0),
                                     SUBTRACT_FLAG, FALSE), HALF_CARRY_FLAG, TRUE)
                 ELSE IF cb \div 64 = 2
                     THEN Store8(M2, cb % 8, BitAnd(M2.t, Not8(Pow2((cb \div 8) % 8))))
                 ELSE Store8(M2, cb % 8, BitOr(M2.t, Pow2((cb \div 8) % 8))),
                 4)])])])

\* 0x2f: CPL
Cpl(M) ==
    Fall(SetFlag(SetFlag(Set(M, "a", Not8(M.cpu.a)), SUBTRACT_FLAG, TRUE),
                 HALF_CARRY_FLAG, TRUE), 4)

\* 0xc3: JP nn; 0xc2 | 0xca | 0xd2 | 0xda: JP cc,nn; 0xe9: JP (HL)
Jp(M, opcode) ==
    IF opcode = 233 THEN Done(Set(M, "pc", Hl(M.cpu)), 4)
    ELSE Bind([M2 \in {Imm2(M)} |->
        IF opcode = 195 THEN Done(Set(M2, "pc", M2.t), 16)
        ELSE IF Condition(M.cpu, opcode) THEN Done(Set(M2, "pc", M2.t), 12)
        ELSE Fall(M2, 12)])

\* 0xe0: LDH (n),A; 0xe2: LD (0xff00+C),A; 0xea: LD (a16),A
StA(M, opcode) ==
    IF opcode = 224
        THEN Bind([M1 \in {Imm(M)} |-> Fall(St(M1, 65280 + M1.t, M.cpu.a), 12)])
    ELSE IF opcode = 226 THEN Fall(St(M, 65280 + M.cpu.c, M.cpu.a), 8)
    ELSE Bind([M2 \in {Imm2(M)} |-> Fall(St(M2, M2.t, M.cpu.a), 16)])

\* 0xf0: LDH A,(n); 0xf2: LD A,(C); 0xfa: LD A,(a16)
LdA(M, opcode) ==
    IF opcode = 240 THEN
        Bind([M1 \in {Imm(M)} |->
        Bind([M2 \in {LdT(M1, 65280 + M1.t)} |-> Fall(Set(M2, "a", M2.t), 12)])])
    ELSE IF opcode = 242 THEN
        Bind([M2 \in {LdT(M, 65280 + M.cpu.c)} |-> Fall(Set(M2, "a", M2.t), 8)])
    ELSE
        Bind([M1 \in {Imm2(M)} |->
        Bind([M2 \in {LdT(M1, M1.t)} |-> Fall(Set(M2, "a", M2.t), 16)])])

\* 0xe8: ADD SP,n and 0xf8: LD HL,SP+r8
SpPlus(M, opcode) ==
    Bind([M1 \in {Imm(M)} |->
    Bind([sp \in {M.cpu.sp} |->
        Fall(SetFlag(SetFlag(
                 Write16(SetFlag(SetFlag(M1, HALF_CARRY_FLAG, (sp % 16) + (M1.t % 16) > 15),
                                 CARRY_FLAG, (sp % 256) + M1.t > 255),
                         IF opcode = 232 THEN "sp" ELSE "hl",
                         U16(sp + AsI8(M1.t) + 65536)),
                 ZERO_FLAG, FALSE), SUBTRACT_FLAG, FALSE),
             IF opcode = 232 THEN 16 ELSE 12)])])

\* 0xc7 | 0xcf | 0xd7 | 0xdf | 0xe7 | 0xef | 0xf7 | 0xff: RST n.  The high
\* byte of pc goes to sp-1, the low byte to sp-2.
Rst(M, opcode) ==
    Bind([M1 \in {IncPc(M)} |->
        Done(Set(Push2(M1, M1.cpu.pc \div 256, M1.cpu.pc % 256), "pc", opcode - 199),
             16)])

\* 0xd9: RETI
Reti(M) ==
    Bind([M2 \in {Pop2(M)} |-> Done(SetIme(Set(M2, "pc", M2.t), TRUE), 16)])

\* 0xf3: DI and 0xfb: EI
DiEi(M, opcode) == Fall(SetIme(M, opcode = 251), 4)

\* The match of Cpu::decode on the opcode, in the order of its arms
Execute(M, opcode) ==
    IF opcode = 0 THEN Fall(M, 1)
    ELSE IF opcode \in {1, 17, 33, 49} THEN LdR16N(M, opcode)
    ELSE IF opcode \in {5, 21, 37, 53, 13, 29, 45, 61} THEN DecR8(M, opcode)
    ELSE IF opcode = 7 THEN Rlca(M)
    ELSE IF opcode = 8 THEN LdA16Sp(M)
    ELSE IF opcode = 23 THEN Rla(M)
    ELSE IF opcode = 31 THEN Rra(M)
    ELSE IF opcode \in {9, 25, 41, 57} THEN AddHl(M, opcode)
    ELSE IF opcode \in {10, 26, 42, 58} THEN LdAR16(M, opcode)
    ELSE IF opcode \in {6, 22, 38, 54, 14, 30, 46, 62} THEN LdR8N(M, opcode)
    ELSE IF opcode \in {3, 19, 35, 51} THEN IncR16(M, opcode)
    ELSE IF opcode = 24 THEN Jr(M)
    ELSE IF opcode \in {40, 32} THEN JrZ(M, opcode)
    ELSE IF opcode \in {56, 48} THEN JrC(M, opcode)
    ELSE IF opcode \in {11, 27, 43, 59} THEN DecR16(M, opcode)
    ELSE IF opcode \in {4, 20, 36, 52, 12, 28, 44, 60} THEN IncR8(M, opcode)
    ELSE IF opcode \in {2, 18, 34, 50} THEN LdR16A(M, opcode)
    ELSE IF opcode = 118 THEN Fall(M, 16)
    ELSE IF opcode \in 64..127 THEN LdR8R8(M, opcode)
    ELSE IF opcode \in 128..191 \cup {198, 214, 230, 246, 206, 222, 238, 254}
        THEN AluOp(M, opcode)
    ELSE IF opcode \in {192, 200, 201} THEN Ret(M, opcode)
    ELSE IF opcode \in {193, 209, 225, 241} THEN Pop(M, opcode)
    ELSE IF opcode \in {197, 213, 229, 245} THEN Push(M, opcode)
    ELSE IF opcode \in {196, 204, 205, 212, 220} THEN Call(M, opcode)
    ELSE IF opcode = 203 THEN Cb(M)
    ELSE IF opcode = 47 THEN Cpl(M)
    ELSE IF opcode \in {195, 194, 202, 210, 218, 233} THEN Jp(M, opcode)
    ELSE IF opcode \in {224, 226, 234} THEN StA(M, opcode)
    ELSE IF opcode \in {232, 248} THEN SpPlus(M, opcode)
    ELSE IF opcode \in {240, 242, 250} THEN LdA(M, opcode)
    ELSE IF opcode \in {199, 207, 215, 223, 231, 239, 247, 255} THEN Rst(M, opcode)
    ELSE IF opcode = 217 THEN Reti(M)
    ELSE IF opcode \in {243, 251} THEN DiEi(M, opcode)
    ELSE IF opcode = 249 THEN Fall(Set(M, "sp", Hl(M.cpu)), 8)
    ELSE Unimplemented(M)

\* Cpu::decode: one instruction at pc, in the memory the Cpu shares
Decode(c, m) ==
    Bind([M \in {LdT(Machine(c, m), c.pc)} |-> IF M.ok THEN Execute(M, M.t) ELSE M])

\* vblank_int as it would be if it left IME as it was
vblank_int_nesting(c, m) ==
    Bind([M \in {Push2(Machine(c, m), c.pc % 256, c.pc \div 256)} |->
        Set(M, "pc", 64)])

\* Cpu::vblank_int: the low byte of pc goes to sp-1, the high byte to sp-2
vblank_int(c, m) ==
    Bind([M \in {Push2(Machine(c, m), c.pc % 256, c.pc \div 256)} |->
        Set(SetIme(M, FALSE), "pc", 64)])

\* Cpu::status_int: the high byte of pc goes to sp-1, the low byte to sp-2
status_int(c, m) ==
    Bind([M \in {Push2(Machine(c, m), c.pc \div 256, c.pc % 256)} |->
        Set(SetIme(M, FALSE), "pc", 72)])

----------------------------------------------------------------------------
(* main.rs: startup *)

\* args.boot_rom is None
NoRom == [len |-> 0, bytes |-> Zeroed]

\* The bytes seq placed from address at on, as the nonzero bytes of an image
SeqAt(seq, at) ==
    [a \in {at + i - 1 : i \in {k \in 1..Len(seq) : seq[k] # 0}} |-> seq[a - at + 1]]

\* Two sparse byte maps with disjoint domains, as one
Both(f, g) == [a \in DOMAIN f \cup DOMAIN g |-> IF a \in DOMAIN f THEN f[a] ELSE g[a]]

\* main, lines 91-98: the boot ROM, when given, is mapped at 0x0000 ahead of
\* the cartridge, which is mapped at 0x0000 too
MainSetup(boot, cart) ==
    Map(IF boot = NoRom THEN MemoryNew ELSE Map(MemoryNew, 0, boot), 0, cart)

\* Cpu::new
CpuNew ==
    [a |-> 0, flags |-> 0, b |-> 0, c |-> 0, d |-> 0, e |-> 0, h |-> 0, l |-> 0,
     sp |-> 0, pc |-> 0, interrupts_enabled |-> FALSE]

NoOp == [op |-> "none", addr |-> 0, value |-> 0, ret |-> 0]

LoopStart == [at |-> "cpu", cycles |-> 0, int |-> "None"]

----------------------------------------------------------------------------
(* main.rs: the loop.  The debugger (keys B, D, N, C, the breakpoint) and   *)
(* the drawing of the frame are left out.                                   *)

\* Handler as it would be if the match looked at IME only
HandlerIgnoringIe(c, m, int) ==
    IF int = "VBlank" /\ c.interrupts_enabled THEN "VBlank"
    ELSE IF int = "Status" /\ c.interrupts_enabled THEN "Status"
    ELSE "None"

\* main, lines 198-210: the handler that the match on the Option<Interrupt>
\* calls, "None" when it calls none
Handler(c, m, int) ==
    IF int = "VBlank" /\ c.interrupts_enabled /\ BitAnd(m.ie, 1) # 0 THEN "VBlank"
    ELSE IF int = "Status" /\ c.interrupts_enabled /\ BitAnd(m.ie, 2) # 0 THEN "Status"
    ELSE "None"

\* main, lines 198-210: the machine after the match
Dispatch(c, m, int) ==
    IF Handler(c, m, int) = "VBlank" THEN vblank_int(c, m)
    ELSE IF Handler(c, m, int) = "Status" THEN status_int(c, m)
    ELSE Machine(c, m)

\* The (action, direction) bits main passes for each JoypadButton
ButtonBits ==
    [Up |-> <<0, 4>>, Down |-> <<0, 8>>, Left |-> <<0, 2>>, Right |-> <<0, 1>>,
     Start |-> <<8, 0>>, Select |-> <<4, 0>>, A |-> <<1, 0>>, B |-> <<2, 0>>]

\* main, lines 217-285: the match on Input::new
Input(m, event) ==
    IF event.kind = "JoypadPress"
        THEN SetJoyState(m, ButtonBits[event.button][1], ButtonBits[event.button][2])
    ELSE IF event.kind = "JoypadRelease"
        THEN UnsetJoyState(m, ButtonBits[event.button][1], ButtonBits[event.button][2])
    ELSE m

\* The buttons held after the event
Held(buttons, event) ==
    IF event.kind = "JoypadPress" THEN buttons \cup {event.button}
    ELSE IF event.kind = "JoypadRelease" THEN buttons \ {event.button}
    ELSE buttons

\* main, lines 190-192: one call of Cpu::decode in `while cycles < 200`
MainDecode ==
    /\ fault = "none"
    /\ loop.at = "cpu"
    /\ \E r \in {Decode(cpu, mem)} :
           /\ cpu' = r.cpu
           /\ mem' = r.mem
           /\ fault' = IF r.ok THEN "none" ELSE "decode"
           /\ ff50_written' = (ff50_written \/ r.ff50)
           /\ last' = [op |-> "decode", addr |-> cpu.pc, value |-> Load(mem, cpu.pc),
                       ret |-> r.cycles]
           /\ loop' = [loop EXCEPT !.cycles = @ + r.cycles,
                                   !.at = IF loop.cycles + r.cycles < 200
                                              THEN "cpu" ELSE "ppu"]
    /\ UNCHANGED <<build, files, dots, steps, pending, held>>

\* main, lines 194-285 and 136: display, the interrupt match, the joypad
\* event, and cycles = 0 for the next round.  last keeps the pc and sp the
\* match found and the handler it called.
MainFrame(event) ==
    /\ fault = "none"
    /\ loop.at = "ppu"
    /\ \E d \in {Display(mem.gpu, loop.cycles)} :
       \E h \in {IF d.ok THEN Handler(cpu, [mem EXCEPT !.gpu = d.gpu], d.int)
                 ELSE "None"} :
       \E r \in {IF d.ok THEN Dispatch(cpu, [mem EXCEPT !.gpu = d.gpu], d.int)
                 ELSE Fail(Machine(cpu, [mem EXCEPT !.gpu = d.gpu]))} :
           /\ cpu' = r.cpu
           /\ mem' = IF r.ok THEN Input(r.mem, event) ELSE r.mem
           /\ fault' = IF ~d.ok THEN "display" ELSE IF ~r.ok THEN "interrupt" ELSE "none"
           /\ ff50_written' = (ff50_written \/ r.ff50)
           /\ last' = [op |-> "frame", addr |-> cpu.pc, value |-> cpu.sp, ret |-> h]
           /\ loop' = [at |-> "cpu", cycles |-> 0, int |-> d.int]
           /\ pending' = ((pending \/ d.int = "VBlank") /\ h # "VBlank")
           /\ held' = IF ~r.ok THEN held ELSE Held(held, event)
    /\ UNCHANGED <<build, files, dots, steps>>

----------------------------------------------------------------------------
(* SpecBus: the bus as main sets it up, under any sequence of loads at      *)
(* LoadAddrs and writes at WriteAddrs with the values BusVals.              *)
(* SpecJoy: the same bus under joypad events, writes to P1 and reads of P1. *)

\* Boot ROM images (256 bytes) and cartridge images (32 KiB); their bytes at
\* 0x0000 differ, so a byte read there tells which ROM answered.
BootImages ==
    { Rom(256, SeqAt(<<49, 254, 255>>, 0)),
      Rom(256, Both(SeqAt(<<243, 175>>, 0), SeqAt(<<80>>, 255))) }

CartImages ==
    { Rom(32768, Both(SeqAt(<<195, 80, 1>>, 0), SeqAt(<<7, 9>>, 158))),
      Rom(32768, Both(SeqAt(<<24, 254>>, 0), SeqAt(<<195, 0, 1>>, 256))) }

LoadAddrs == {0, 255, 49152, 57344, 65295, 65184, 65279}

WriteAddrs == {49152, 53504, 65350, 65360, 57344, 65348}

BusVals == {0, 192, 241}

InitBus ==
    /\ \E boot \in BootImages \cup {NoRom}, cart \in CartImages :
          /\ files = [boot |-> boot, cart |-> cart]
          /\ mem = MainSetup(boot, cart)
    /\ cpu = CpuNew
    /\ build = "release"
    /\ fault = "none"
    /\ last = NoOp
    /\ loop = LoopStart
    /\ ff50_written = FALSE
    /\ dots = 0
    /\ steps = 0
    /\ pending = FALSE
    /\ held = {}

\* A bus read: Memory::load
BusLoad(address) ==
    /\ fault = "none"
    /\ LET v == Load(mem, address)
       IN  /\ last' = [op |-> "load", addr |-> address, value |-> 0, ret |-> v]
           /\ fault' = IF v = PANIC THEN "load" ELSE "none"
    /\ UNCHANGED <<mem, cpu, build, loop, files, ff50_written, dots, steps, pending, held>>

\* A bus write: Memory::write
BusWrite(address, value) ==
    /\ fault = "none"
    /\ LET r == Write(mem, address, value)
       IN  /\ mem' = r.mem
           /\ fault' = IF r.ok THEN "none" ELSE "write"
    /\ last' = [op |-> "write", addr |-> address, value |-> value, ret |-> 0]
    /\ ff50_written' = (ff50_written \/ address = 65360)
    /\ UNCHANGED <<cpu, build, loop, files, dots, steps, pending, held>>

NextBus ==
    \/ \E address \in LoadAddrs : BusLoad(address)
    \/ \E address \in WriteAddrs, value \in BusVals : BusWrite(address, value)

SpecBus == InitBus /\ [][NextBus]_vars

\* main, lines 217-285: a joypad event that Input::new found
JoyEvent(event) ==
    /\ fault = "none"
    /\ mem' = Input(mem, event)
    /\ held' = Held(held, event)
    /\ last' = [op |-> "input", addr |-> 0, value |-> 0, ret |-> 0, event |-> event]
    /\ UNCHANGED <<cpu, build, fault, loop, files, ff50_written, dots, steps, pending>>

\* The joypad: presses and releases of the eight buttons, writes to P1
\* (0xFF00) that select the action half (0x10), the direction half (0x20),
\* both (0x00) or neither (0x30), and reads of P1
NextJoy ==
    \/ \E event \in {[kind |-> k, button |-> b] :
                         k \in {"JoypadPress", "JoypadRelease"}, b \in DOMAIN ButtonBits} :
           JoyEvent(event)
    \/ \E value \in {0, 16, 32, 48} : BusWrite(65280, value)
    \/ BusLoad(65280)

SpecJoy == InitBus /\ [][NextJoy]_vars

----------------------------------------------------------------------------
(* Properties of the bus under SpecBus *)

\* C1: with a boot ROM mapped ahead of the cartridge, a bus read of 0x0000
\* returns the boot ROM's byte if and only if no write to 0xFF50 has
\* happened so far.
C1_BootReadIffNoFF50Write ==
    (files.boot # NoRom /\ last.op = "load" /\ last.addr = 0)
        => ((last.ret = RomRead(files.boot, 0)) <=> ~ff50_written)

\* C1's case: a read of 0x0000 after a write to 0xFF50 answered by the
\* cartridge
C1_Witness ==
    /\ files.boot # NoRom /\ ff50_written
    /\ last.op = "load" /\ last.addr = 0
    /\ last.ret = RomRead(files.cart, 0)

\* Addresses whose reads are compared across a write to 0xFF50
ProbeAddrs == {0, 128, 255, 256, 260, 32767, 49152, 65024, 65535}

\* C2: after one or more writes to 0xFF50 (with or without a boot ROM) every
\* read in 0x0000-0x00FF returns the cartridge's byte, and a further write to
\* 0xFF50 changes the result of no bus read.
C2_UnmapPermanentAndHarmless ==
    [][ /\ (ff50_written' /\ fault' = "none")
            => \A a \in 0..255 : Load(mem', a) = RomRead(files.cart, a)
        /\ (ff50_written /\ last'.op = "write" /\ last'.addr = 65360)
            => \A a \in ProbeAddrs : Load(mem', a) = Load(mem, a) ]_vars

\* C10: after a bus write of v in [0x00,0xF1] to 0xFF46 that returned, OAM
\* byte i equals the bus read of v*0x100+i, for every i in [0,0x9F].
C10_DmaPostCondition ==
    (last.op = "write" /\ last.addr = 65350 /\ last.value <= 241 /\ fault = "none")
        => \A i \in 0..159 :
              SpGet(mem.gpu.oam, i) = Load(mem, last.value * 256 + i)

\* C10's case: a DMA from work RAM has put a nonzero byte into OAM
C10_Witness ==
    /\ last.op = "write" /\ last.addr = 65350 /\ last.value = 192 /\ fault = "none"
    /\ SpGet(mem.gpu.oam, 0) # 0

----------------------------------------------------------------------------
(* SpecPpu: the PPU behind the bus, under any sequence of Gpu::display     *)
(* calls (cycle counts TickCycles: below one line, exactly one line, and    *)
(* what main passes) and bus writes to LCDC, STAT, LY and LYC.             *)

TickCycles == {60, 116, 204}

PpuAddrs == {65344, 65348, 65345, 65349}

PpuVals == {0, 128, 200}

InitPpu ==
    /\ \E cart \in CartImages :
          /\ files = [boot |-> NoRom, cart |-> cart]
          /\ mem = MainSetup(NoRom, cart)
    /\ cpu = CpuNew
    /\ build = "release"
    /\ fault = "none"
    /\ last = NoOp
    /\ loop = LoopStart
    /\ ff50_written = FALSE
    /\ dots = 0
    /\ steps = 0
    /\ pending = FALSE
    /\ held = {}

\* Memory::display, which is Gpu::display on the Gpu the Memory owns
Tick(cycles) ==
    /\ fault = "none"
    /\ LET r == Display(mem.gpu, cycles)
       IN  /\ mem' = [mem EXCEPT !.gpu = r.gpu]
           /\ fault' = IF r.ok THEN "none" ELSE "display"
           /\ last' = [op |-> "display", addr |-> 0, value |-> cycles, ret |-> r.int]
    /\ UNCHANGED <<cpu, build, loop, files, ff50_written, dots, steps, pending, held>>

NextPpu ==
    \/ \E cycles \in TickCycles : Tick(cycles)
    \/ \E address \in PpuAddrs, value \in PpuVals : BusWrite(address, value)

SpecPpu == InitPpu /\ [][NextPpu]_vars

\* C6: VBlank is raised only by the tick in which LY changes from 143 to
\* 144; a tick that leaves LY at 144 does not raise it again.
C6_VBlankOnlyAtTransition ==
    [][ (last'.op = "display" /\ last'.ret = "VBlank")
            => (mem.gpu.ly = 143 /\ mem'.gpu.ly = 144) ]_vars

\* C7: LY is in [0,153] in every reachable state.
C7_LyInRange == mem.gpu.ly \in 0..153

\* C7's case: LY has reached 153 and wrapped to 0 again
C7_Witness ==
    /\ mem.gpu.ly = 0 /\ last.op = "display" /\ last.value = 116
    /\ Bit(mem.gpu.lcdc, 7) = 1 /\ mem.gpu.cycles = 0

----------------------------------------------------------------------------
(* SpecFrame: the LCD switched on and Gpu::display called with any split   *)
(* of at most MaxDots cycles, which dots adds up.                          *)

MaxDots == 1400

\* Gpu::display, its cycles counted
TickCounted(cycles) ==
    /\ dots + cycles <= MaxDots
    /\ fault = "none"
    /\ LET r == Display(mem.gpu, cycles)
       IN  /\ mem' = [mem EXCEPT !.gpu = r.gpu]
           /\ fault' = IF r.ok THEN "none" ELSE "display"
           /\ last' = [op |-> "display", addr |-> 0, value |-> cycles, ret |-> r.int]
    /\ dots' = IF Bit(mem.gpu.lcdc, 7) = 1 THEN dots + cycles ELSE dots
    /\ UNCHANGED <<cpu, build, loop, files, ff50_written, steps, pending, held>>

NextFrame ==
    \/ \E cycles \in TickCycles : TickCounted(cycles)
    \/ BusWrite(65344, 128)

SpecFrame == InitPpu /\ [][NextFrame]_vars

\* C8: with the LCD enabled LY advances by exactly one for every 456 dots
\* passed to the tick, however they are split across calls (LY starts at 0).
C8_LyAdvancesEvery456Dots == mem.gpu.ly = (dots \div 456) % 154

----------------------------------------------------------------------------
(* SpecSprite: the PPU behind the bus with one sprite.  The bus writes      *)
(* SpriteWrites fill OAM entry 0 (Y 16 or 116, X 8 or 9, X flip), row 0 of  *)
(* tile 0 (0x3C 0x7E), LCDC (LCD and sprites on), OBP0 and SCY, in any      *)
(* order, and Gpu::display is called with 60 cycles while LY is 0: the call *)
(* that renders line 0 and the call that moves on to line 1.                *)

SpriteWrites ==
    {<<65024, 16>>, <<65024, 116>>, <<65025, 8>>, <<65025, 9>>, <<65027, 32>>,
     <<32768, 60>>, <<32769, 126>>, <<65344, 130>>, <<65352, 228>>, <<65346, 200>>}

NextSprite ==
    \/ \E w \in SpriteWrites : BusWrite(w[1], w[2])
    \/ (mem.gpu.ly = 0 /\ Tick(60))

SpecSprite == InitPpu /\ [][NextSprite]_vars

----------------------------------------------------------------------------
(* SpecRegs: the PPU registers behind the bus, under any sequence of bus    *)
(* writes of 0x00 and 0xE4 to, and bus reads of, LCDC, STAT, SCY, SCX, LYC,  *)
(* BGP, OBP0 and OBP1.                                                      *)

NextRegs ==
    \/ \E address \in {65344, 65345, 65346, 65347, 65349, 65351, 65352, 65353},
           value \in {0, 228} : BusWrite(address, value)
    \/ \E address \in {65344, 65345, 65346, 65347, 65349, 65351, 65352, 65353} :
           BusLoad(address)

SpecRegs == InitPpu /\ [][NextRegs]_vars

----------------------------------------------------------------------------
(* SpecCpu: a fresh Cpu (Cpu::new) decoding from the boot ROM it starts     *)
(* in.  The boot ROMs are the programs Program(word, ins): they set up a    *)
(* stack, push the word and pop it into AF, and then run the instruction    *)
(* bytes ins, which range over every opcode and every 0xcb opcode.          *)

MaxSteps == 8

\* LD SP,0xD000; LD BC,word; PUSH BC; POP AF; ins; JR -2
Program(word, ins) ==
    Rom(256, SeqAt(<<49, 0, 208, 1, word % 256, word \div 256, 197, 241>>
                       \o ins \o <<24, 254>>, 0))

StackWords == {65535, 3871}

TestInstrs ==
    {<<op, n, 192>> : op \in (0..255) \ {203}, n \in {1, 255}}
        \cup {<<203, cb, 0>> : cb \in 0..255}

InitCpu ==
    /\ \E word \in StackWords, ins \in TestInstrs, cart \in CartImages :
          /\ files = [boot |-> Program(word, ins), cart |-> cart]
          /\ mem = MainSetup(Program(word, ins), cart)
    /\ cpu = CpuNew
    /\ build \in {"debug", "release"}
    /\ fault = "none"
    /\ last = NoOp
    /\ loop = LoopStart
    /\ ff50_written = FALSE
    /\ dots = 0
    /\ steps = 0
    /\ pending = FALSE
    /\ held = {}

\* One call of Cpu::decode
Step ==
    /\ fault = "none"
    /\ steps < MaxSteps
    /\ \E r \in {Decode(cpu, mem)} :
           /\ cpu' = r.cpu
           /\ mem' = r.mem
           /\ fault' = IF r.ok THEN "none" ELSE "decode"
           /\ ff50_written' = (ff50_written \/ r.ff50)
           /\ last' = [op |-> "decode", addr |-> cpu.pc, value |-> Load(mem, cpu.pc),
                       ret |-> r.cycles, sp |-> cpu.sp]
    /\ steps' = steps + 1
    /\ UNCHANGED <<build, loop, files, dots, pending, held>>

NextCpu == Step

SpecCpu == InitCpu /\ [][NextCpu]_vars

\* C9: after any sequence of instructions run by a fresh CPU the low four
\* bits of F are 0, also after POP AF of arbitrary stack bytes.
C9_FlagsLowNibbleZero == cpu.flags % 16 = 0

\* C9's case: POP AF has just popped a flags byte with low bits set, and F
\* holds its high bits
C9_Witness ==
    /\ last.op = "decode" /\ last.value = 241 /\ fault = "none"
    /\ Load(mem, U16(cpu.sp + 65535)) % 16 # 0
    /\ cpu.flags = 240

----------------------------------------------------------------------------
(* SpecInt: the interrupt match of main's loop between the instructions of  *)
(* a program, with the Option<Interrupt> drawn from its type: VBlank, and   *)
(* Status, which Gpu::display as it stands never returns.  The programs     *)
(* IntProgram(sp, ie) set SP and IE, enable interrupts and jump to 0x12C0;  *)
(* RETI stands at both vectors.                                             *)

\* LD SP,sp; LD A,ie; LDH (0xFF),A; EI; JP 0x12C0; 0x40: RETI; 0x48: RETI
IntProgram(sp, ie) ==
    Rom(256, Both(SeqAt(<<49, sp % 256, sp \div 256, 62, ie, 224, 255, 251,
                          195, 192, 18>>, 0),
                  Both(SeqAt(<<217>>, 64), SeqAt(<<217>>, 72))))

IntSetups == {<<53248, 3>>, <<53248, 1>>, <<1, 2>>}

Interrupts == {"VBlank", "Status"}

InitInt ==
    /\ \E su \in IntSetups, cart \in CartImages :
          /\ files = [boot |-> IntProgram(su[1], su[2]), cart |-> cart]
          /\ mem = MainSetup(IntProgram(su[1], su[2]), cart)
    /\ cpu = CpuNew
    /\ build \in {"debug", "release"}
    /\ fault = "none"
    /\ last = NoOp
    /\ loop = LoopStart
    /\ ff50_written = FALSE
    /\ dots = 0
    /\ steps = 0
    /\ pending = FALSE
    /\ held = {}

\* main, lines 198-210, for the interrupt int.  last keeps the pc and sp
\* the match found and the handler it called.
Interrupt(int) ==
    /\ fault = "none"
    /\ steps < MaxSteps
    /\ \E r \in {Dispatch(cpu, mem, int)} :
           /\ cpu' = r.cpu
           /\ mem' = r.mem
           /\ fault' = IF r.ok THEN "none" ELSE "interrupt"
           /\ ff50_written' = (ff50_written \/ r.ff50)
           /\ last' = [op |-> "match", addr |-> cpu.pc, value |-> cpu.sp,
                       ret |-> Handler(cpu, mem, int), int |-> int]
    /\ steps' = steps + 1
    /\ UNCHANGED <<build, loop, files, dots, pending, held>>

NextInt ==
    \/ Step
    \/ \E int \in Interrupts : Interrupt(int)

SpecInt == InitInt /\ [][NextInt]_vars

\* The vector of an interrupt
Vector(int) == IF int = "VBlank" THEN 64 ELSE 72

\* The bit of an interrupt in IE
IeBit(int) == IF int = "VBlank" THEN 0 ELSE 1

\* Addresses at which a byte written is the byte read back
Ram(a) == (a >= 49152 /\ a <= 57343) \/ (a >= 65408 /\ a <= 65534)

\* C4: a dispatch happens only when IME is set and the interrupt's bit in IE
\* is set; a dispatch that returns has cleared IME, taken 2 off SP (as u16),
\* left the two bytes of the interrupted PC in the two stack bytes (when
\* they are RAM) and set PC to the vector, 0x0040 for VBlank and 0x0048 for
\* STAT; without a dispatch the match leaves the CPU and the memory alone.
C4_Dispatch ==
    [][ (last'.op = "match" /\ fault' = "none") =>
          /\ last'.ret # "None"
                => /\ last'.ret = last'.int
                   /\ cpu.interrupts_enabled
                   /\ Bit(mem.ie, IeBit(last'.int)) = 1
                   /\ ~cpu'.interrupts_enabled
                   /\ cpu'.sp = U16(cpu.sp + 65536 - 2)
                   /\ cpu'.pc = Vector(last'.int)
                   /\ (Ram(cpu'.sp) /\ Ram(U16(cpu'.sp + 1)))
                         => <<Load(mem', cpu'.sp), Load(mem', U16(cpu'.sp + 1))>>
                               \in {<<cpu.pc \div 256, cpu.pc % 256>>,
                                    <<cpu.pc % 256, cpu.pc \div 256>>}
          /\ last'.ret = "None"
                => /\ cpu' = cpu /\ mem' = mem
                   /\ ~(cpu.interrupts_enabled /\ Bit(mem.ie, IeBit(last'.int)) = 1) ]_vars

\* C4's case: a STAT interrupt dispatched at pc 0x12C0 with the stack in RAM
C4_Witness ==
    /\ last.op = "match" /\ last.ret = "Status" /\ fault = "none"
    /\ last.addr = 4800 /\ cpu.pc = 72 /\ cpu.sp = 53246

\* C4's case for VBlank
C4_WitnessVBlank ==
    /\ last.op = "match" /\ last.ret = "VBlank" /\ fault = "none"
    /\ last.addr = 4800 /\ cpu.pc = 64 /\ cpu.sp = 53246

\* C5: a dispatch followed by RETI at the vector is a round trip, for VBlank
\* and for STAT and every interrupted PC: PC is the interrupted PC again, SP
\* is what it was before the dispatch, and IME is set.
C5_DispatchRetiRoundTrip ==
    [][ (/\ last.op = "match" /\ last.ret # "None" /\ Ram(cpu.sp) /\ Ram(U16(cpu.sp + 1))
         /\ last'.op = "decode" /\ last'.value = 217 /\ fault' = "none")
            => (/\ cpu'.pc = last.addr
                /\ cpu'.sp = last.value
                /\ cpu'.interrupts_enabled) ]_vars

\* The VBlank half of C5: vblank_int followed by RETI is a round trip
C5_VBlankRoundTrip ==
    [][ (/\ last.op = "match" /\ last.ret = "VBlank" /\ Ram(cpu.sp) /\ Ram(U16(cpu.sp + 1))
         /\ last'.op = "decode" /\ last'.value = 217 /\ fault' = "none")
            => (/\ cpu'.pc = last.addr
                /\ cpu'.sp = last.value
                /\ cpu'.interrupts_enabled) ]_vars

----------------------------------------------------------------------------
(* SpecMain: main's loop running a boot ROM.  LateEnable switches the LCD   *)
(* on, waits for LY = 145 with interrupts disabled and IE = 0, and only     *)
(* then sets IE bit 0 and IME; EarlyEnable sets them first.  RETI stands at *)
(* the VBlank vector.                                                       *)

\* LD SP,0xD000; LD A,0x80; LDH (0x40),A; LDH A,(0x44); CP 145; JR NZ,-6;
\* LD A,1; LDH (0xFF),A; EI; JR -2; 0x40: RETI
LateEnable ==
    Rom(256, Both(SeqAt(<<49, 0, 208, 62, 128, 224, 64, 240, 68, 254, 145, 32, 250,
                          62, 1, 224, 255, 251, 24, 254>>, 0),
                  SeqAt(<<217>>, 64)))

\* LD SP,0xD000; LD A,1; LDH (0xFF),A; EI; LD A,0x80; LDH (0x40),A; JR -2;
\* 0x40: RETI
EarlyEnable ==
    Rom(256, Both(SeqAt(<<49, 0, 208, 62, 1, 224, 255, 251, 62, 128, 224, 64,
                          24, 254>>, 0),
                  SeqAt(<<217>>, 64)))

\* What Input::new finds at the end of a round
Events ==
    {[kind |-> "None", button |-> "A"], [kind |-> "JoypadPress", button |-> "A"],
     [kind |-> "JoypadRelease", button |-> "A"]}

InitMain ==
    /\ \E boot \in {LateEnable, EarlyEnable}, cart \in CartImages :
          /\ files = [boot |-> boot, cart |-> cart]
          /\ mem = MainSetup(boot, cart)
    /\ cpu = CpuNew
    /\ build \in {"debug", "release"}
    /\ fault = "none"
    /\ last = NoOp
    /\ loop = LoopStart
    /\ ff50_written = FALSE
    /\ dots = 0
    /\ steps = 0
    /\ pending = FALSE
    /\ held = {}

NextMain ==
    \/ MainDecode
    \/ \E event \in Events : MainFrame(event)

SpecMain == InitMain /\ [][NextMain]_vars

\* C3: a VBlank raised while IME or IE bit 0 was clear stays pending, and
\* the CPU enters the VBlank vector 0x0040 once both are set: when the loop
\* comes to its interrupt match with a VBlank raised earlier and not
\* dispatched, IME set and IE bit 0 set, the CPU is at 0x0040 afterwards,
\* whether or not display raises another VBlank.
C3_PendingVBlankEntersVector ==
    [][ (/\ pending /\ cpu.interrupts_enabled /\ Bit(mem.ie, 0) = 1
         /\ last'.op = "frame" /\ fault' = "none")
            => cpu'.pc = 64 ]_vars

----------------------------------------------------------------------------
(* SpecProg: a fresh Cpu decoding the programs of ProgSetups, each a boot   *)
(* ROM and a cartridge.                                                     *)
(*                                                                          *)
(* CallSetups: CALL nn into a callee that starts with RET.  The programs    *)
(* from CallBoot and CallCart set SP, jump to a call site in the cartridge  *)
(* and call from there; RamCallBoot sets SP to 0xDFF0, writes CALL 0x00CD   *)
(* to 0xC000 and jumps to it, the callee being in the boot ROM.             *)
(* RstSetups: RST n in the cartridge into a handler that starts with RET.   *)
(* JrSetups: relative jumps in the boot ROM.                                *)
(* EdgeSetups: 16-bit decrements, increments and pushes at 0 and 0xFFFF.    *)
(* AluSetups: ADD A,n, ADC A,n, SUB n, INC r, SWAP r and RLCA.               *)

\* LD SP,sp; JP site
CallBoot(sp, site) ==
    Rom(256, SeqAt(<<49, sp % 256, sp \div 256, 195, site % 256, site \div 256>>, 0))

\* site: CALL target; target: RET
CallCart(site, target) ==
    Rom(32768, Both(SeqAt(<<205, target % 256, target \div 256>>, site),
                    SeqAt(<<201>>, target)))

\* LD SP,0xDFF0; LD A,0xCD; LD (0xC000),A; LD (0xC001),A; JP 0xC000; 0xCD: RET
RamCallBoot ==
    Rom(256, Both(SeqAt(<<49, 240, 223, 62, 205, 234, 0, 192, 234, 1, 192,
                          195, 0, 192>>, 0),
                  SeqAt(<<201>>, 205)))

\* Stacks at 0xDFF0, 0xD000, 0xFFFE and (in ROM) 0x4000; call sites 0x0150,
\* 0x12FD and 0x7FF0; callees 0x2000 and 0x4321
CallSetups ==
    {[boot |-> CallBoot(sp, site), cart |-> CallCart(site, target)] :
        sp \in {57328, 53248, 65534, 16384}, site \in {336, 4861, 32752},
        target \in {8192, 17185}}
      \cup {[boot |-> RamCallBoot, cart |-> cart] : cart \in CartImages}

\* LD SP,0xD000; JP site; n: RET in the boot ROM and site: RST n in the
\* cartridge, for the eight RST opcodes but RST 0x00 (the boot ROM starts at
\* 0x0000) and the sites 0x0150, 0x0201 and 0x12FD
RstSetups ==
    {[boot |-> Rom(256, Both(SeqAt(<<49, 0, 208, 195, site % 256, site \div 256>>, 0),
                             SeqAt(<<201>>, opcode - 199))),
      cart |-> Rom(32768, SeqAt(<<opcode>>, site))] :
        opcode \in {207, 215, 223, 231, 239, 247, 255}, site \in {336, 513, 4861}}

\* pre; op e: the two-byte instruction op e after the instructions pre
OpBoot(pre, op, e) == Rom(256, SeqAt(pre \o <<op, e>>, 0))

\* JR e and JR cc,e for every offset byte e, at 0x0000 with the flags of a
\* fresh Cpu (Z and C clear), and at 0x0003 after LD A,0x80; ADD A,A (Z and
\* C set)
JrSetups(cart) ==
    {[boot |-> OpBoot(pre, op, e), cart |-> cart] :
        pre \in {<<>>, <<62, 128, 135>>}, op \in {24, 32, 40, 48, 56}, e \in 0..255}

\* On a fresh Cpu (every register 0): DEC BC; DEC DE; DEC HL; DEC SP;
\* PUSH BC; CALL 0x0010; RST 0x08; LD HL,0xFFFF then LD A,(HL+) or
\* LD (HL+),A; LD SP,0x0001 then PUSH BC.  And boot ROM files of 2 and of 257
\* bytes that start with JR -2.
EdgeSetups(cart) ==
    {[boot |-> Rom(256, SeqAt(ins, 0)), cart |-> cart] :
        ins \in {<<11>>, <<27>>, <<43>>, <<59>>, <<197>>, <<205, 16, 0>>, <<207>>,
                 <<33, 255, 255, 42>>, <<33, 255, 255, 34>>, <<49, 1, 0, 197>>}}
      \cup {[boot |-> Rom(len, SeqAt(<<24, 254>>, 0)), cart |-> cart] : len \in {2, 257}}

\* LD A,0x80; ADD A,A; DEC B (leaves Z clear and N, H, C set); LD A,a;
\* ADD A,n for every a and sixteen bytes n.  LD A,a; ADC A,n with the carry
\* clear (fresh Cpu) and with it set (after LD A,0x80; ADD A,A), for sixteen
\* bytes a and n.  LD A,0x80; ADD A,A (leaves Z and C set, N and H clear);
\* LD A,a; SUB n for every a and eight bytes n.  LD r,v; INC r for each of
\* B, C, D, E, H, L, (HL) (after LD HL,0xC000) and A and every v, with the
\* carry clear and with it set.  LD r,v; SWAP r for B, (HL) and A and every
\* v, with Z and C set and with N, H and C set beforehand.
\* LD A,v; RLCA with the same flags beforehand.
AluSetups(cart) ==
    {[boot |-> OpBoot(<<62, 128, 135, 5, 62, a>>, 198, n), cart |-> cart] :
        a \in 0..255,
        n \in {0, 1, 2, 15, 16, 17, 85, 127, 128, 129, 170, 239, 240, 241, 254, 255}}
      \cup {[boot |-> OpBoot(pre \o <<62, a>>, 206, n), cart |-> cart] :
        pre \in {<<>>, <<62, 128, 135>>},
        a \in {0, 1, 2, 15, 16, 17, 85, 127, 128, 129, 170, 239, 240, 241, 254, 255},
        n \in {0, 1, 2, 15, 16, 17, 85, 127, 128, 129, 170, 239, 240, 241, 254, 255}}
      \cup {[boot |-> OpBoot(<<62, 128, 135, 62, a>>, 214, n), cart |-> cart] :
        a \in 0..255, n \in {0, 1, 15, 16, 128, 129, 240, 255}}
      \cup {[boot |-> Rom(256, SeqAt(pre \o (IF i = 6 THEN <<33, 0, 192>> ELSE <<>>)
                                      \o <<6 + 8 * i, v, 4 + 8 * i>>, 0)),
             cart |-> cart] :
        pre \in {<<>>, <<62, 128, 135>>}, i \in 0..7, v \in 0..255}
      \cup {[boot |-> Rom(256, SeqAt(pre \o (IF i = 6 THEN <<33, 0, 192>> ELSE <<>>)
                                      \o <<6 + 8 * i, v, 203, 48 + i>>, 0)),
             cart |-> cart] :
        pre \in {<<62, 128, 135>>, <<62, 128, 135, 5>>}, i \in {0, 6, 7}, v \in 0..255}
      \cup {[boot |-> Rom(256, SeqAt(pre \o <<62, v, 7>>, 0)), cart |-> cart] :
        pre \in {<<62, 128, 135>>, <<62, 128, 135, 5>>}, v \in 0..255}

\* The programs of SpecProg; the boot ROM programs run with the cartridge
\* cart mapped behind them
ProgSetups(cart) ==
    CallSetups \cup RstSetups \cup JrSetups(cart) \cup EdgeSetups(cart)
        \cup AluSetups(cart)

InitProg ==
    /\ \E setup \in ProgSetups(Rom(32768, SeqAt(<<24, 254>>, 256))) :
          /\ files = setup
          /\ mem = MainSetup(setup.boot, setup.cart)
    /\ cpu = CpuNew
    /\ build \in {"debug", "release"}
    /\ fault = "none"
    /\ last = NoOp
    /\ loop = LoopStart
    /\ ff50_written = FALSE
    /\ dots = 0
    /\ steps = 0
    /\ pending = FALSE
    /\ held = {}

SpecProg == InitProg /\ [][NextCpu]_vars

\* C11: CALL nn followed by RET in the callee is a round trip: when the two
\* stack bytes are RAM, PC ends at the address of the instruction after the
\* CALL (CALL address + 3) and SP ends at its value before the CALL.
C11_CallRetRoundTrip ==
    [][ (/\ last.op = "decode" /\ last.value = 205
         /\ Ram(cpu.sp) /\ Ram(U16(cpu.sp + 1))
         /\ last'.op = "decode" /\ last'.value = 201 /\ fault' = "none")
            => (/\ cpu'.pc = U16(last.addr + 3)
                /\ cpu'.sp = last.sp) ]_vars

\* C11's case: RET has just returned from a CALL at 0xC000 with SP = 0xDFF0
C11_Witness ==
    /\ last.op = "decode" /\ last.value = 201 /\ fault = "none"
    /\ cpu.pc = 49155 /\ cpu.sp = 57328
    /\ last.addr = 205 /\ last.sp = 57326

\* C11's case from a call site in the cartridge, with the stack in high RAM
C11_WitnessRom ==
    /\ last.op = "decode" /\ last.value = 201 /\ fault = "none"
    /\ cpu.pc = 4864 /\ cpu.sp = 65534 /\ last.addr = 8192

\* C12: CALL stores the return address (CALL address + 3) with its low
\* byte at the new SP and its high byte at the new SP + 1, when those two
\* bytes are RAM: with SP = 0xDFF0 and return address 0xC003, 0xDFEE holds
\* 0x03 and 0xDFEF holds 0xC0 after the CALL.
C12_CallStoresLowByteAtSp ==
    [][ (/\ last'.op = "decode" /\ last'.value = 205 /\ fault' = "none"
         /\ Ram(cpu'.sp) /\ Ram(U16(cpu'.sp + 1)))
            => (/\ Load(mem', cpu'.sp) = U16(cpu.pc + 3) % 256
                /\ Load(mem', U16(cpu'.sp + 1)) = U16(cpu.pc + 3) \div 256) ]_vars

\* What the code does in C12's example: after the CALL at 0xC000 with
\* SP = 0xDFF0, 0xDFEE holds 0xC0 and 0xDFEF holds 0x03
C12_HighByteAtSp ==
    (last.op = "decode" /\ last.value = 205 /\ last.addr = 49152 /\ fault = "none")
        => (/\ cpu.sp = 57326
            /\ Load(mem, 57326) = 192
            /\ Load(mem, 57327) = 3)

\* C13: every opcode byte of the LR35902 set (all bytes but the eleven the
\* CPU does not define: 0xD3, 0xDB, 0xDD, 0xE3, 0xE4, 0xEB, 0xEC, 0xED, 0xF4,
\* 0xFC, 0xFD) and every 0xCB-prefixed byte executes to completion in one
\* step: the call of decode that fetched it returns.
C13_EveryOpcodeExecutes ==
    (/\ last.op = "decode"
     /\ last.value \notin {211, 219, 221, 227, 228, 235, 236, 237, 244, 252, 253})
        => fault = "none"

\* The opcodes C13 fails for whatever the state: RRCA, STOP, DAA, SCF, CCF,
\* SBC A,r, RET NC, RET C and SBC A,n end in the default arm or in
\* unimplemented!(), and so do RRC and SRA on the 0xCB page
C13_MissingOpcodes ==
    (/\ last.op = "decode"
     /\ \/ last.value \in {15, 16, 39, 55, 63, 208, 216, 222} \cup (152..159)
        \/ /\ last.value = 203
           /\ Load(mem, U16(last.addr + 1)) \in (8..15) \cup (40..47))
        => fault = "decode"

\* C14: every call of decode that returns, returns a cycle count in
\* {4, 8, 12, 16, 20, 24}, whatever the opcode.
C14_CyclesInSet ==
    (last.op = "decode" /\ fault = "none") => last.ret \in {4, 8, 12, 16, 20, 24}

\* What the code returns: one of these counts, or 1 for NOP and only for NOP
C14_OnlyNopReturnsOne ==
    (last.op = "decode" /\ fault = "none")
        => /\ last.ret \in {1, 4, 8, 12, 16, 20, 24}
           /\ (last.ret = 1) = (last.value = 0)

\* C15: for every conditional control-flow opcode (JR cc, JP cc, CALL cc,
\* RET cc) about to be decoded, the cycle count decode returns with flags
\* under which the condition holds is strictly greater than the count it
\* returns, from the same state, with flags under which it does not.
C15_TakenCostsMore ==
    Load(mem, cpu.pc) \in {32, 40, 48, 56, 194, 202, 210, 218, 196, 204, 212, 220,
                           192, 200, 208, 216}
        => \A f1, f2 \in {0, 16, 128, 144} :
               \A r1 \in {Decode([cpu EXCEPT !.flags = f1], mem)} :
               \A r2 \in {Decode([cpu EXCEPT !.flags = f2], mem)} :
                   (/\ r1.ok /\ r2.ok
                    /\ Condition([cpu EXCEPT !.flags = f1], Load(mem, cpu.pc))
                    /\ ~Condition([cpu EXCEPT !.flags = f2], Load(mem, cpu.pc)))
                       => r1.cycles > r2.cycles

\* The same for JR cc, CALL cc and RET cc only
C15_TakenCostsMoreButJp ==
    Load(mem, cpu.pc) \in {32, 40, 48, 56, 196, 204, 212, 220, 192, 200, 208, 216}
        => \A f1, f2 \in {0, 16, 128, 144} :
               \A r1 \in {Decode([cpu EXCEPT !.flags = f1], mem)} :
               \A r2 \in {Decode([cpu EXCEPT !.flags = f2], mem)} :
                   (/\ r1.ok /\ r2.ok
                    /\ Condition([cpu EXCEPT !.flags = f1], Load(mem, cpu.pc))
                    /\ ~Condition([cpu EXCEPT !.flags = f2], Load(mem, cpu.pc)))
                       => r1.cycles > r2.cycles

\* C16: EI takes effect with a one-instruction delay: when EI is decoded
\* with IME clear, IME is still clear when EI itself has completed.
C16_EiDelayed ==
    [][ (/\ ~cpu.interrupts_enabled
         /\ last'.op = "decode" /\ last'.value = 251 /\ fault' = "none")
            => ~cpu'.interrupts_enabled ]_vars

\* What the code does: IME is set as soon as EI has completed
C16_EiImmediate ==
    (last.op = "decode" /\ last.value = 251 /\ fault = "none")
        => cpu.interrupts_enabled

\* C17: after HALT has executed, with no bit set in both IF and IE (IE is 0),
\* the CPU is suspended: the next step fetches nothing and leaves PC alone.
C17_HaltSuspends ==
    [][ (/\ last.op = "decode" /\ last.value = 118 /\ fault = "none"
         /\ mem.ie = 0)
            => cpu'.pc = cpu.pc ]_vars

\* What the code does: HALT returns 16 cycles with PC on the next
\* instruction, which the next call of decode runs
C17_HaltFallsThrough ==
    [][ (/\ last.op = "decode" /\ last.value = 118 /\ fault = "none"
         /\ last'.op = "decode")
            => (/\ last.ret = 16
                /\ cpu.pc = U16(last.addr + 1)
                /\ last'.addr = cpu.pc) ]_vars

\* C18: relative jumps use wrapping 16-bit arithmetic: a taken JR e or
\* JR cc,e at PC, with e the signed offset in [-128, 127], sets PC to
\* (PC + 2 + e) mod 2^16.
C18_JrWraps ==
    [][ (/\ last'.op = "decode" /\ last'.value \in {24, 32, 40, 48, 56}
         /\ fault' = "none"
         /\ last'.value = 24 \/ Condition(cpu, last'.value))
            => cpu'.pc = (cpu.pc + 2 + AsI8(Load(mem, U16(cpu.pc + 1)))) % 65536 ]_vars

\* What the code does when the target needs no wrap and e is not -128: the
\* same PC
C18_JrWithinRange ==
    [][ (/\ last'.op = "decode" /\ last'.value \in {24, 32, 40, 48, 56}
         /\ fault' = "none"
         /\ last'.value = 24 \/ Condition(cpu, last'.value)
         /\ AsI8(Load(mem, U16(cpu.pc + 1))) # -128
         /\ cpu.pc + 2 + AsI8(Load(mem, U16(cpu.pc + 1))) \in 0..65535)
            => cpu'.pc = cpu.pc + 2 + AsI8(Load(mem, U16(cpu.pc + 1))) ]_vars

\* C19's instructions at their edge: the step decodes DEC rr with rr = 0,
\* LD (HL+),A or LD A,(HL+) with HL = 0xFFFF, or PUSH, CALL nn or RST with
\* SP = 0 or 1
C19_AtEdge ==
    /\ last'.op = "decode"
    /\ \/ last'.value \in {11, 27, 43, 59} /\ Read16(cpu, Pair(last'.value)) = 0
       \/ last'.value \in {34, 42} /\ Hl(cpu) = 65535
       \/ /\ last'.value \in {197, 213, 229, 245, 205, 199, 207, 215, 223, 231, 239, 247, 255}
          /\ cpu.sp \in {0, 1}

\* The step has returned with the 16-bit value wrapped modulo 2^16
C19_Wrapped ==
    /\ fault' = "none"
    /\ last'.value \in {11, 27, 43, 59} => Read16(cpu', Pair(last'.value)) = 65535
    /\ last'.value \in {34, 42} => Hl(cpu') = 0
    /\ last'.value \notin {11, 27, 43, 59, 34, 42} => cpu'.sp = U16(cpu.sp + 65534)

\* C19: no instruction fails on 16-bit overflow or underflow: DEC rr with
\* rr = 0 yields 0xFFFF, LD A,(HL+) and LD (HL+),A with HL = 0xFFFF yield
\* HL = 0, and PUSH, CALL and RST with SP = 0 or 1 wrap SP modulo 2^16.
C19_NoOverflowFailure == [][C19_AtEdge => C19_Wrapped]_vars

\* What the code does: the value wraps in a build without overflow checks,
\* and the process panics in a build with them
C19_WrapsInReleaseOnly ==
    [][C19_AtEdge => IF build = "release" THEN C19_Wrapped ELSE fault' = "decode"]_vars

\* C20: ADD A,n (0xC6 with the immediate byte n, and 0x87 with n = A), for
\* every A and n: A becomes (A + n) mod 256, Z = (result = 0), N = 0,
\* H = ((A & 0xF) + (n & 0xF) > 0xF) and C = (A + n > 0xFF), with A the value
\* before the instruction.
C20_AddFlags ==
    [][ (last'.op = "decode" /\ last'.value \in {198, 135} /\ fault' = "none")
            => \A n \in {IF last'.value = 198 THEN Load(mem, U16(cpu.pc + 1)) ELSE cpu.a} :
                   /\ cpu'.a = (cpu.a + n) % 256
                   /\ FlagSet(cpu', ZERO_FLAG) = ((cpu.a + n) % 256 = 0)
                   /\ ~FlagSet(cpu', SUBTRACT_FLAG)
                   /\ FlagSet(cpu', HALF_CARRY_FLAG) = ((cpu.a % 16) + (n % 16) > 15)
                   /\ FlagSet(cpu', CARRY_FLAG) = (cpu.a + n > 255)
                   /\ cpu'.flags % 16 = 0 ]_vars

\* C20's case: ADD A,0x11 has run with A = 0x0F, N set before: A is 0x20 and
\* of the flags only H is set
C20_Witness ==
    /\ last.op = "decode" /\ last.value = 198 /\ fault = "none"
    /\ Load(mem, U16(last.addr + 1)) = 17
    /\ cpu.a = 32 /\ cpu.flags = HALF_CARRY_FLAG

\* C20's case with a carry out of bit 7 and a zero result: 0xFF + 0x01
C20_WitnessCarry ==
    /\ last.op = "decode" /\ last.value = 198 /\ fault = "none"
    /\ Load(mem, U16(last.addr + 1)) = 1
    /\ cpu.a = 0 /\ cpu.flags = ZERO_FLAG + HALF_CARRY_FLAG + CARRY_FLAG

\* C21: ADC A,n (0xCE) for every A, n and incoming carry c: A becomes
\* (A + n + c) mod 256, Z = (result = 0), N = 0, C = (A + n + c > 0xFF), and
\* H = ((A & 0xF) + (n & 0xF) + c > 0xF), with A the value before the
\* instruction.
C21_AdcFlags ==
    [][ (last'.op = "decode" /\ last'.value = 206 /\ fault' = "none")
            => \A n \in {Load(mem, U16(cpu.pc + 1))} : \A c \in {CarryBit(cpu)} :
                   /\ cpu'.a = (cpu.a + n + c) % 256
                   /\ FlagSet(cpu', ZERO_FLAG) = ((cpu.a + n + c) % 256 = 0)
                   /\ ~FlagSet(cpu', SUBTRACT_FLAG)
                   /\ FlagSet(cpu', CARRY_FLAG) = (cpu.a + n + c > 255)
                   /\ FlagSet(cpu', HALF_CARRY_FLAG)
                          = ((cpu.a % 16) + (n % 16) + c > 15) ]_vars

\* What the code does: the same A, Z, N and C, and H from the low nibble of
\* the new A in place of the old
C21_HalfCarryFromResult ==
    [][ (last'.op = "decode" /\ last'.value = 206 /\ fault' = "none")
            => \A n \in {Load(mem, U16(cpu.pc + 1))} : \A c \in {CarryBit(cpu)} :
                   /\ cpu'.a = (cpu.a + n + c) % 256
                   /\ FlagSet(cpu', ZERO_FLAG) = ((cpu.a + n + c) % 256 = 0)
                   /\ ~FlagSet(cpu', SUBTRACT_FLAG)
                   /\ FlagSet(cpu', CARRY_FLAG) = (cpu.a + n + c > 255)
                   /\ FlagSet(cpu', HALF_CARRY_FLAG)
                          = ((cpu'.a % 16) + (n % 16) + c > 15) ]_vars

C22_WitnessZero ==
    /\ last.op = "decode" /\ last.value = 214 /\ fault = "none"
    /\ Load(mem, U16(last.addr + 1)) = 16
    /\ cpu.a = 0 /\ cpu.flags = ZERO_FLAG + SUBTRACT_FLAG

\* The 8-bit operand i of c and m: B, C, D, E, H, L, the byte at HL, A
C23_Operand(c, m, i) ==
    IF i = 6 THEN Load(m, Hl(c)) ELSE <<c.b, c.c, c.d, c.e, c.h, c.l, 0, c.a>>[i + 1]

\* C23: INC r for every 8-bit operand r (a register, or (HL) with HL in
\* RAM): the operand becomes (r + 1) mod 256, C is unchanged,
\* H = ((r & 0xF) + 1 > 0xF), Z = (result = 0) and N = 0.
C23_IncFlags ==
    [][ (/\ last'.op = "decode" /\ last'.value \in {4, 12, 20, 28, 36, 44, 52, 60}
         /\ fault' = "none"
         /\ last'.value = 52 => Ram(Hl(cpu)))
            => \A i \in {(last'.value \div 8) % 8} : \A r \in {C23_Operand(cpu, mem, i)} :
                   /\ C23_Operand(cpu', mem', i) = (r + 1) % 256
                   /\ FlagSet(cpu', CARRY_FLAG) = FlagSet(cpu, CARRY_FLAG)
                   /\ FlagSet(cpu', HALF_CARRY_FLAG) = ((r % 16) + 1 > 15)
                   /\ FlagSet(cpu', ZERO_FLAG) = ((r + 1) % 256 = 0)
                   /\ ~FlagSet(cpu', SUBTRACT_FLAG) ]_vars

\* C23's case: INC (HL) has run on the byte 0xFF at 0xC000 with the carry
\* set: the byte is 0 and Z, H and the carry are set
C23_Witness ==
    /\ last.op = "decode" /\ last.value = 52 /\ fault = "none"
    /\ Hl(cpu) = 49152 /\ Load(mem, 49152) = 0
    /\ cpu.flags = ZERO_FLAG + HALF_CARRY_FLAG + CARRY_FLAG

\* C23's case on a register: INC E has run with E = 0x0F and the carry set
C23_WitnessReg ==
    /\ last.op = "decode" /\ last.value = 28 /\ fault = "none"
    /\ cpu.e = 16 /\ cpu.flags = HALF_CARRY_FLAG + CARRY_FLAG

\* C24: for every 0xCB-prefixed rotate, shift and SWAP (0xCB 0x00-0x3F) on a
\* register or on (HL) with HL in RAM, Z after the instruction equals
\* (result = 0), whatever Z was before.
C24_ZReflectsResult ==
    [][ (/\ last'.op = "decode" /\ last'.value = 203 /\ fault' = "none"
         /\ Load(mem, U16(cpu.pc + 1)) < 64
         /\ Load(mem, U16(cpu.pc + 1)) % 8 = 6 => Ram(Hl(cpu)))
            => FlagSet(cpu', ZERO_FLAG)
                  = (C23_Operand(cpu', mem', Load(mem, U16(cpu.pc + 1)) % 8) = 0) ]_vars

\* What the code does: the same for every one of them but RLC (0xCB
\* 0x00-0x07), which sets Z on a zero result and otherwise leaves Z as it was
C24_RlcKeepsZ ==
    [][ (/\ last'.op = "decode" /\ last'.value = 203 /\ fault' = "none"
         /\ Load(mem, U16(cpu.pc + 1)) < 64
         /\ Load(mem, U16(cpu.pc + 1)) % 8 = 6 => Ram(Hl(cpu)))
            => FlagSet(cpu', ZERO_FLAG)
                  = \/ C23_Operand(cpu', mem', Load(mem, U16(cpu.pc + 1)) % 8) = 0
                    \/ Load(mem, U16(cpu.pc + 1)) < 8 /\ FlagSet(cpu, ZERO_FLAG) ]_vars

----------------------------------------------------------------------------
(* Properties of the bus under SpecBus and of the joypad under SpecJoy *)

\* C25: echo RAM aliases work RAM in both directions: a write of v to
\* 0xE000+k, k in [0,0x1DFF], is read back as v at 0xE000+k and at 0xC000+k,
\* and a write of v to 0xC000+k is read back as v at 0xE000+k.
C25_EchoAliasesRam ==
    [][ (last'.op = "write" /\ fault' = "none")
            => /\ last'.addr \in 57344..65023
                    => /\ Load(mem', last'.addr) = last'.value
                       /\ Load(mem', last'.addr - 8192) = last'.value
               /\ last'.addr \in 49152..56831
                    => Load(mem', last'.addr + 8192) = last'.value ]_vars

\* What the code does: a write to work RAM is read back in echo RAM, and a
\* write to echo RAM changes nothing
C25_EchoReadOnly ==
    [][ (last'.op = "write" /\ fault' = "none")
            => /\ last'.addr \in 57344..65023 => mem' = mem
               /\ last'.addr \in 49152..56831
                    => Load(mem', last'.addr + 8192) = last'.value ]_vars

\* C26: every bus read and every bus write completes, for every address and
\* value and in every reachable bus state, also after the boot ROM has been
\* unmapped.
C26_EveryAccessCompletes == last.op \in {"load", "write"} => fault = "none"

\* The accesses that abort: a write to 0xFF44, and a read below 0x0100 that
\* no mapping answers, by a load or by a DMA from page 0
C26_Aborts ==
    (last.op \in {"load", "write"} /\ fault # "none")
        => \/ last.op = "write" /\ last.addr = 65348
           \/ last.op = "load" /\ last.addr <= 255 /\ MappingAt(mem, last.addr) = 0
           \/ /\ last.op = "write" /\ last.addr = 65350 /\ last.value = 0
              /\ MappingAt(mem, 0) = 0

\* C27: a bus write of any value to LY (0xFF44) returns normally and resets
\* LY to 0.
C27_LyWriteResets ==
    [][ (last'.op = "write" /\ last'.addr = 65348)
            => (fault' = "none" /\ mem'.gpu.ly = 0) ]_vars

\* What the code does: the write aborts the process and changes nothing
C27_LyWriteAborts ==
    [][ (last'.op = "write" /\ last'.addr = 65348)
            => (fault' = "write" /\ mem' = mem) ]_vars

\* C28: a read of 0xFF00 shows, in bits 3..0, {Start, Select, B, A} when bit
\* 5 of the value written last to 0xFF00 is 0, {Down, Up, Left, Right} when
\* bit 4 is 0 and bit 5 is 1, a pressed button as 0 and a released one as 1,
\* and 0xF when neither half is selected, after any sequence of presses and
\* releases.
C28_JoypadRead ==
    (last.op = "load" /\ last.addr = 65280 /\ fault = "none")
        => IF Bit(mem.io0, 5) = 0
               THEN \A k \in 0..3 :
                        Bit(last.ret, k)
                            = IF <<"A", "B", "Select", "Start">>[k + 1] \in held
                                  THEN 0 ELSE 1
           ELSE IF Bit(mem.io0, 4) = 0
               THEN \A k \in 0..3 :
                        Bit(last.ret, k)
                            = IF <<"Right", "Left", "Up", "Down">>[k + 1] \in held
                                  THEN 0 ELSE 1
           ELSE last.ret % 16 = 15

\* C28's case: a read with the direction half selected while Up and A are
\* held shows only Up as pressed
C28_Witness ==
    /\ last.op = "load" /\ last.addr = 65280 /\ fault = "none"
    /\ mem.io0 = 32 /\ held = {"Up", "A"}
    /\ last.ret % 16 = 11

\* C28's case with neither half selected while every button is held
C28_WitnessNone ==
    /\ last.op = "load" /\ last.addr = 65280 /\ fault = "none"
    /\ mem.io0 = 48 /\ held = DOMAIN ButtonBits
    /\ last.ret % 16 = 15

\* C29: whenever a button goes from released to pressed, a Joypad interrupt
\* is requested: bit 4 of IF (0xFF0F) is set afterwards.
C29_PressRequestsInterrupt ==
    [][ (/\ last'.op = "input" /\ last'.event.kind = "JoypadPress"
         /\ last'.event.button \notin held)
            => Bit(Load(mem', 65295), 4) = 1 ]_vars

\* What the code does: a press changes the joypad state and nothing else,
\* and 0xFF0F reads 0
C29_PressOnlySetsState ==
    [][ (last'.op = "input" /\ last'.event.kind = "JoypadPress")
            => /\ mem' = SetJoyState(mem, ButtonBits[last'.event.button][1],
                                     ButtonBits[last'.event.button][2])
               /\ Load(mem', 65295) = 0
               /\ cpu' = cpu ]_vars

\* C30: IF at 0xFF0F is a readable register whose upper three bits read as 1.
C30_IfUpperBitsReadOne ==
    (last.op = "load" /\ last.addr = 65295 /\ fault = "none")
        => BitAnd(last.ret, 224) = 224

\* What the code does: 0xFF0F has no arm in Memory::load and reads 0
C30_IfReadsZero ==
    (last.op = "load" /\ last.addr = 65295 /\ fault = "none") => last.ret = 0

\* C31: every bus read of an address in the unusable range 0xFEA0-0xFEFF
\* returns 0xFF
C31_UnusableReadsFF ==
    (last.op = "load" /\ last.addr >= 65184 /\ last.addr <= 65279)
        => last.ret = 255

\* What Memory::load does instead: the range has no arm and falls to `_ => 0`
C31_UnusableReadsZero ==
    (last.op = "load" /\ last.addr >= 65184 /\ last.addr <= 65279)
        => last.ret = 0

----------------------------------------------------------------------------
(* Properties of the PPU under SpecPpu: LYC, sprites, register round trips *)

\* C32: after every scanline change STAT bit 2 equals (LY == LYC), and a
\* STAT interrupt is raised when LY becomes equal to LYC while STAT bit 6 is
\* set
C32_LycCompared ==
    [][ (last'.op = "display" /\ fault' = "none" /\ mem'.gpu.ly # mem.gpu.ly)
            => /\ (Bit(mem'.gpu.stat, 2) = 1) = (mem'.gpu.ly = mem'.gpu.lyc)
               /\ (mem'.gpu.ly = mem'.gpu.lyc /\ Bit(mem'.gpu.stat, 6) = 1)
                      => last'.ret = "Status" ]_vars

\* What Gpu::display does instead: it never changes STAT and never returns
\* Interrupt::Status (the LYC test is commented out)
C32_LycIgnored ==
    [][ last'.op = "display"
            => (mem'.gpu.stat = mem.gpu.stat /\ last'.ret # "Status") ]_vars

\* LY has become equal to LYC (line 128) with STAT bit 6 set
C32_LycReached ==
    /\ last.op = "display" /\ fault = "none"
    /\ mem.gpu.ly = 128 /\ mem.gpu.lyc = 128 /\ mem.gpu.cycles = 0
    /\ Bit(mem.gpu.stat, 6) = 1

----------------------------------------------------------------------------
(* Properties of sprites under SpecSprite *)

\* The sprite of C33: OAM entry 0 is {Y=16, X=8, tile 0, X flip}, row 0 of
\* tile 0 is 0x3C 0x7E, the LCD and sprites are on, nothing is scrolled, and
\* Gpu::display has just returned.
C33_SpriteAtOrigin ==
    /\ last.op = "display" /\ fault = "none"
    /\ Bit(mem.gpu.lcdc, 7) = 1 /\ Bit(mem.gpu.lcdc, 1) = 1
    /\ mem.gpu.scx = 0 /\ mem.gpu.scy = 0
    /\ SpGet(mem.gpu.oam, 0) = 16 /\ SpGet(mem.gpu.oam, 1) = 8
    /\ SpGet(mem.gpu.oam, 2) = 0 /\ SpGet(mem.gpu.oam, 3) = 32
    /\ SpGet(mem.gpu.vram, 0) = 60 /\ SpGet(mem.gpu.vram, 1) = 126

\* C33: the sprite at screen position (0, 0) is drawn: framebuffer row 0
\* columns 0..7 hold the colours of the bit-reversed row 0x3C 0x7E under
\* OBP0, where the colour index is not 0
C33_SpriteAtOriginDrawn ==
    C33_SpriteAtOrigin =>
        \A c \in 0..7 :
            LET index == ColorIndex(ReverseBits(60), ReverseBits(126), c)
            IN  index # 0 => mem.gpu.row0[c] = PaletteColor(mem.gpu.obp0, index)

\* What Gpu::display does instead: the sprite loop never changes row 0 of the
\* buffer, which holds what the background loop drew when LY was 0 last
C33_Row0IsBackground ==
    [][ (last'.op = "display" /\ fault' = "none")
            => mem'.gpu.row0 =
                   IF Bit(mem'.gpu.lcdc, 7) = 1 /\ mem'.gpu.ly = 0
                       THEN ShowTiles(mem'.gpu).row0
                       ELSE mem.gpu.row0 ]_vars

\* C33's sprite with OBP0 = 0xE4 after the display call that renders LY = 0
C33_Rendered ==
    C33_SpriteAtOrigin /\ mem.gpu.obp0 = 228 /\ mem.gpu.ly = 0

\* C37: every framebuffer write made while drawing a sprite stays inside the
\* buffer, for every OAM content that passes the visibility test and every
\* SCX and SCY: no call of Gpu::display ends in show_sprite indexing the
\* buffer out of range
C37_SpriteWritesInBuffer == last.op = "display" => fault # "display"

\* What holds instead: the writes stay inside the buffer while nothing is
\* scrolled
C37_InBufferUnscrolled ==
    (last.op = "display" /\ mem.gpu.scx = 0 /\ mem.gpu.scy = 0) => fault # "display"

\* The sprite at screen position (1, 100) drawn with SCY = 200: its first
\* coloured pixel is at row 300 of the buffer's 256
C37_Overrun ==
    /\ last.op = "display" /\ fault = "display"
    /\ mem.gpu.scy = 200 /\ SpGet(mem.gpu.oam, 0) = 116 /\ SpGet(mem.gpu.oam, 1) = 9
    /\ SpriteIndex(mem.gpu, 1, 100, 0, 1) >= BUFFER_SIZE

----------------------------------------------------------------------------
(* Properties of the PPU registers under SpecRegs *)

\* C38: each writable PPU register is a bus round trip: for LCDC, STAT, SCY,
\* SCX, LYC, BGP, OBP0 and OBP1 a bus write of v followed by a bus read of
\* the same address returns v
C38_RegisterRoundTrip ==
    [][ (/\ last.op = "write" /\ fault = "none"
         /\ last.addr \in {65344, 65345, 65346, 65347, 65349, 65351, 65352, 65353}
         /\ last'.op = "load" /\ last'.addr = last.addr)
            => last'.ret = last.value ]_vars

\* What the bus does instead: the round trip holds for LCDC, STAT, SCY, LYC,
\* BGP and OBP0; SCX and OBP1 have no arm in Memory::write or Memory::load,
\* they keep their 0 and read 0
C38_ScxObp1OffTheBus ==
    [][ (/\ last.op = "write" /\ fault = "none"
         /\ last.addr \in {65344, 65345, 65346, 65347, 65349, 65351, 65352, 65353}
         /\ last'.op = "load" /\ last'.addr = last.addr)
            => /\ last'.ret = IF last.addr \in {65347, 65353} THEN 0 ELSE last.value
               /\ mem.gpu.scx = 0 /\ mem.gpu.obp1 = 0 ]_vars

\* 0xE4 written to SCX and SCX read right after: 0
C38_ScxReadsZero ==
    /\ last.op = "load" /\ last.addr = 65347 /\ last.ret = 0 /\ fault = "none"
    /\ mem.gpu.lcdc = 228 /\ mem.gpu.scy = 228

----------------------------------------------------------------------------
(* Properties of main's setup under SpecProg *)

\* C34: a boot ROM image whose length is not exactly 256 bytes is rejected:
\* such an image is never mapped onto the bus, and the CPU never runs
C34_BadBootRejected ==
    (files.boot # NoRom /\ files.boot.len # 256)
        => /\ \A i \in DOMAIN mem.mappings : mem.mappings[i].region # files.boot
           /\ last.op # "decode"

\* What main does instead: it maps the boot ROM file at 0x0000 whatever its
\* length, ahead of the cartridge, and the CPU runs it
C34_AnyLengthMapped ==
    (files.boot # NoRom /\ ~ff50_written)
        => /\ mem.mappings[1] =
                  [start |-> 0, end |-> files.boot.len, region |-> files.boot]
           /\ (last.op = "decode" /\ last.addr < files.boot.len)
                  => last.value = RomRead(files.boot, last.addr)

\* The CPU has decoded the first instruction of a boot ROM of 2 bytes
C34_ShortBootRuns ==
    /\ files.boot # NoRom /\ files.boot.len = 2
    /\ last.op = "decode" /\ last.addr = 0 /\ last.value = 24 /\ fault = "none"

----------------------------------------------------------------------------
(* Properties of interrupt dispatches under SpecInt *)

\* C35: interrupt dispatches never nest unasked.  A dispatch finds IME set
\* and leaves it clear, and IME goes from clear to set only when the CPU
\* executes EI (0xFB) or RETI (0xD9): so between a dispatch and the next EI
\* or RETI, IME stays clear and the match dispatches nothing, whatever
\* interrupt it is handed.
C35_NoNestedDispatch ==
    [][ /\ (last'.op = "match" /\ last'.ret # "None" /\ fault' = "none")
              => (cpu.interrupts_enabled /\ ~cpu'.interrupts_enabled)
        /\ (last'.op = "match" /\ ~cpu.interrupts_enabled)
              => (last'.ret = "None" /\ cpu' = cpu)
        /\ (~cpu.interrupts_enabled /\ cpu'.interrupts_enabled)
              => (last'.op = "decode" /\ last'.value \in {251, 217}) ]_vars

\* C35's case: inside the VBlank handler (at the vector, before its RETI) a
\* further interrupt that IE enables was handed to the match and not
\* dispatched
C35_Witness ==
    /\ last.op = "match" /\ last.ret = "None" /\ fault = "none"
    /\ cpu.pc = 64 /\ ~cpu.interrupts_enabled
    /\ Bit(mem.ie, IeBit(last.int)) = 1

----------------------------------------------------------------------------
(* Properties of programs under SpecProg: RST, SWAP and RLCA *)

\* C36: RST n followed by RET in the handler is a round trip: RST sets PC to
\* n = opcode - 0xC7, and when the two stack bytes are RAM the RET returns PC
\* to the address of the instruction after the RST (RST address + 1) with SP
\* at its value before the RST.
C36_RstRetRoundTrip ==
    [][ (/\ last.op = "decode"
         /\ last.value \in {199, 207, 215, 223, 231, 239, 247, 255}
         /\ fault = "none"
         /\ Ram(cpu.sp) /\ Ram(U16(cpu.sp + 1))
         /\ last'.op = "decode" /\ last'.value = 201 /\ fault' = "none")
            => (/\ cpu.pc = last.value - 199
                /\ cpu'.pc = U16(last.addr + 1)
                /\ cpu'.sp = last.sp) ]_vars

\* What the code does instead: RST leaves the high byte of the return
\* address at SP + 1 and the low byte at SP, RET takes the byte at SP for the
\* high byte: PC ends at the return address with its two bytes exchanged
C36_RetSwapsBytes ==
    [][ (/\ last.op = "decode"
         /\ last.value \in {199, 207, 215, 223, 231, 239, 247, 255}
         /\ fault = "none"
         /\ Ram(cpu.sp) /\ Ram(U16(cpu.sp + 1))
         /\ last'.op = "decode" /\ last'.value = 201 /\ fault' = "none")
            => (/\ cpu.pc = last.value - 199
                /\ cpu'.pc = (U16(last.addr + 1) % 256) * 256 + U16(last.addr + 1) \div 256
                /\ cpu'.sp = last.sp) ]_vars

\* RET in the handler of the RST 0x08 at 0x0150 has ended at 0x5101
C36_ReturnedElsewhere ==
    /\ last.op = "decode" /\ last.value = 201 /\ last.addr = 8 /\ fault = "none"
    /\ cpu.pc = 20737 /\ cpu.sp = 53248

\* C39: CB SWAP exchanges the nibbles of its operand (a register, or (HL)
\* with HL in RAM): for every value x the result is
\* ((x & 0x0F) << 4) | ((x & 0xF0) >> 4), with Z = (result = 0) and N, H, C
\* cleared
C39_SwapExchangesNibbles ==
    [][ (/\ last'.op = "decode" /\ last'.value = 203 /\ fault' = "none"
         /\ Load(mem, U16(cpu.pc + 1)) \in 48..55
         /\ Load(mem, U16(cpu.pc + 1)) = 54 => Ram(Hl(cpu)))
            => \A i \in {Load(mem, U16(cpu.pc + 1)) % 8} :
               \A x \in {Load8(Machine(cpu, mem), i).t} :
                   /\ Load8(Machine(cpu', mem'), i).t = ((x % 16) * 16) + (x \div 16)
                   /\ FlagSet(cpu', ZERO_FLAG) = (((x % 16) * 16) + (x \div 16) = 0)
                   /\ ~FlagSet(cpu', SUBTRACT_FLAG)
                   /\ ~FlagSet(cpu', HALF_CARRY_FLAG)
                   /\ ~FlagSet(cpu', CARRY_FLAG) ]_vars

\* What the code does instead: `value&0xf << 4 | value&0xf0 >> 4` is
\* (value & 0xF0) | (value & 0x0F), so SWAP leaves its operand as it was; the
\* flags are as C39 says
C39_SwapKeepsOperand ==
    [][ (/\ last'.op = "decode" /\ last'.value = 203 /\ fault' = "none"
         /\ Load(mem, U16(cpu.pc + 1)) \in 48..55
         /\ Load(mem, U16(cpu.pc + 1)) = 54 => Ram(Hl(cpu)))
            => \A i \in {Load(mem, U16(cpu.pc + 1)) % 8} :
               \A x \in {Load8(Machine(cpu, mem), i).t} :
                   /\ Load8(Machine(cpu', mem'), i).t = x
                   /\ FlagSet(cpu', ZERO_FLAG) = (x = 0)
                   /\ ~FlagSet(cpu', SUBTRACT_FLAG)
                   /\ ~FlagSet(cpu', HALF_CARRY_FLAG)
                   /\ ~FlagSet(cpu', CARRY_FLAG) ]_vars

\* SWAP (HL) has run on the byte 0x1F at 0xC000 with N, H and C set: the
\* byte is still 0x1F
C39_Unswapped ==
    /\ last.op = "decode" /\ last.value = 203 /\ fault = "none"
    /\ Load(mem, U16(last.addr + 1)) = 54
    /\ Hl(cpu) = 49152 /\ Load(mem, 49152) = 31 /\ cpu.flags = 0

\* C40: RLCA rotates A left by one bit: for every A the result is
\* ((A << 1) | (A >> 7)) mod 256, with C set to the old bit 7 and Z, N, H
\* cleared
C40_RlcaRotates ==
    [][ (last'.op = "decode" /\ last'.value = 7 /\ fault' = "none")
            => /\ cpu'.a = ((cpu.a * 2) % 256) + (cpu.a \div 128)
               /\ FlagSet(cpu', CARRY_FLAG) = (cpu.a >= 128)
               /\ ~FlagSet(cpu', ZERO_FLAG)
               /\ ~FlagSet(cpu', SUBTRACT_FLAG)
               /\ ~FlagSet(cpu', HALF_CARRY_FLAG) ]_vars

\* What the code does instead: `self.regs.a <<= 1` shifts, bit 0 of the
\* result is 0 and the old bit 7 is in C only; the flags are as C40 says
C40_RlcaShifts ==
    [][ (last'.op = "decode" /\ last'.value = 7 /\ fault' = "none")
            => /\ cpu'.a = (cpu.a * 2) % 256
               /\ FlagSet(cpu', CARRY_FLAG) = (cpu.a >= 128)
               /\ ~FlagSet(cpu', ZERO_FLAG)
               /\ ~FlagSet(cpu', SUBTRACT_FLAG)
               /\ ~FlagSet(cpu', HALF_CARRY_FLAG) ]_vars

\* RLCA has run with A = 0x81 and Z and C set: A is 0x02 and only C is set
C40_Bit7Lost ==
    /\ last.op = "decode" /\ last.value = 7 /\ fault = "none" /\ last.addr = 5
    /\ Load(mem, 4) = 129 /\ cpu.a = 2 /\ cpu.flags = CARRY_FLAG

====
